---- MODULE Spec2Model ----
(***************************************************************************)
(* A model of pdf-space-filler: the document/field store (usePdfStore.ts), *)
(* the auto-detect run, the export handlers, the widget naming of          *)
(* buildFillablePdf, the detector's rectangle clamping and the pointer     *)
(* resize step of FieldOverlay.                                            *)
(*                                                                         *)
(* Lengths are integers.  Display-space and content-space coordinates are  *)
(* drawn from grids on which every division the code performs is exact.    *)
(***************************************************************************)
EXTENDS Integers, Sequences, FiniteSets, TLC

VARIABLES
    documents,            \* PdfState.documents
    activeDocumentId,     \* PdfState.activeDocumentId
    lastCall,             \* the store operation applied last (history)
    detecting,            \* App state: detecting
    detectingDocumentId,  \* App state: detectingDocumentId
    error,                \* App state: error
    exporting,            \* App state: exporting
    exportingAll,         \* App state: exportingAll
    run,                  \* the running handleAutoDetect, if any
    expOne,               \* the running / finished handleExportCurrent
    exp,                  \* the running / finished handleExportAll
    geo,                  \* one field rectangle under detection / editing
    loading,              \* App state: loading
    ing,                  \* the running / finished ingestFiles
    zip,                  \* the last call of createZipFromFiles
    scan,                 \* the last call of detectFieldsForPage on a text content
    placed,               \* the last rectangle buildFillablePdf passed to addToPage
    flights               \* the handleAutoDetect calls that have not returned

storeVars == <<documents, activeDocumentId, lastCall>>
appVars == <<detecting, detectingDocumentId, error, exporting, exportingAll>>
auxVars == <<loading, ing, zip, scan, placed, flights>>
vars == <<documents, activeDocumentId, lastCall, detecting, detectingDocumentId,
          error, exporting, exportingAll, run, expOne, exp, geo, loading, ing, zip, scan,
          placed, flights>>

(***************************************************************************)
(* Values                                                                  *)
(***************************************************************************)
\* `undefined` for an optional id (selectedFieldId?, activeDocumentId?).
Undefined == "undefined"
\* `null` for the error banner.
Null == "null"

Abs(n) == IF n < 0 THEN 0 - n ELSE n
Min(a, b) == IF a < b THEN a ELSE b
Max(a, b) == IF a > b THEN a ELSE b

\* A Field of the store (confidence and placeholder are optional keys).
Field(id, pageIndex, x, y, width, height, name) ==
    [id |-> id, pageIndex |-> pageIndex, x |-> x, y |-> y, width |-> width,
     height |-> height, multiline |-> FALSE, name |-> name]

\* A PageMeta at the ingest scale 1.25 = ScaleNum / ScaleDen.
ScaleNum == 5
ScaleDen == 4
PageMeta(index, originalWidth, originalHeight) ==
    [index |-> index,
     width |-> (originalWidth * ScaleNum) \div ScaleDen,
     height |-> (originalHeight * ScaleNum) \div ScaleDen,
     originalWidth |-> originalWidth, originalHeight |-> originalHeight,
     scaleNum |-> ScaleNum, scaleDen |-> ScaleDen]

(***************************************************************************)
(* The store: usePdfStore.ts                                               *)
(***************************************************************************)
\* Bounds of the store model.
MaxDocs == 2
MaxFields == 2
MaxCands == 2

SeqsUpTo(S, n) == UNION {[1..k -> S] : k \in 0..n}
Range(s) == {s[i] : i \in DOMAIN s}

DocIndex(docs, id) == {i \in DOMAIN docs : docs[i].id = id}
HasDoc(docs, id) == DocIndex(docs, id) # {}
DocOf(docs, id) == docs[CHOOSE i \in DocIndex(docs, id) : \A j \in DocIndex(docs, id) : i <= j]
FieldIdsOf(doc) == {doc.fields[i].id : i \in DOMAIN doc.fields}

\* `updater` is a function on the documents of the list.
updateDocument_Every(docs, id, updater) == [i \in DOMAIN docs |-> updater[docs[i]]]
updateDocument(docs, id, updater) ==
    [i \in DOMAIN docs |-> IF docs[i].id = id THEN updater[docs[i]] ELSE docs[i]]

\* { ...field, ...updates }
Spread_PatchOnly(field, updates) == updates
Spread(field, updates) ==
    [k \in DOMAIN field \cup DOMAIN updates |->
        IF k \in DOMAIN updates THEN updates[k] ELSE field[k]]

\* The predicate of combined.some(...) in mergeFields.
duplicateOf_XInclusive(existing, candidate) ==
    /\ existing.pageIndex = candidate.pageIndex
    /\ Abs(existing.x - candidate.x) <= 10
    /\ Abs(existing.y - candidate.y) < 10
    /\ Abs(existing.width - candidate.width) < 15

duplicateOf(existing, candidate) ==
    /\ existing.pageIndex = candidate.pageIndex
    /\ Abs(existing.x - candidate.x) < 10
    /\ Abs(existing.y - candidate.y) < 10
    /\ Abs(existing.width - candidate.width) < 15

\* candidates.forEach(...) over the working list `combined`.
RECURSIVE mergeCombined(_, _)
mergeCombined(combined, candidates) ==
    IF candidates = <<>> THEN combined
    ELSE LET candidate == Head(candidates)
             duplicate == \E i \in DOMAIN combined : duplicateOf(combined[i], candidate)
         IN  mergeCombined(IF duplicate THEN combined ELSE Append(combined, candidate),
                           Tail(candidates))

LastId(fields) == IF Len(fields) > 0 THEN fields[Len(fields)].id ELSE Undefined

\* A merge that looks for duplicates among the candidates only.
mergedDocument_BatchOnly(document, candidates) ==
    LET combined == document.fields \o mergeCombined(<<>>, candidates)
    IN  [document EXCEPT !.fields = combined, !.selectedFieldId = LastId(combined)]

mergedDocument(document, candidates) ==
    LET combined == mergeCombined(document.fields, candidates)
    IN  [document EXCEPT !.fields = combined, !.selectedFieldId = LastId(combined)]

Call(op, documentId, candidates) ==
    [op |-> op, documentId |-> documentId, candidates |-> candidates,
     repeated |-> /\ lastCall.op = op
                  /\ lastCall.documentId = documentId
                  /\ lastCall.candidates = candidates
                  /\ op = "mergeFields"]

addDocument(entry) ==
    /\ documents' = Append(documents, entry)
    /\ activeDocumentId' = entry.id
    /\ lastCall' = Call("addDocument", entry.id, <<>>)

nextActive_Last(active, id, remaining) ==
    IF active = id
    THEN (IF Len(remaining) > 0 THEN remaining[Len(remaining)].id ELSE Undefined)
    ELSE active
nextActive(active, id, remaining) ==
    IF active = id
    THEN (IF Len(remaining) > 0 THEN remaining[1].id ELSE Undefined)
    ELSE active

removeDocument(id) ==
    LET remaining == SelectSeq(documents, LAMBDA document : document.id # id)
    IN  /\ documents' = remaining
        /\ activeDocumentId' = nextActive(activeDocumentId, id, remaining)
        /\ lastCall' = Call("removeDocument", id, <<>>)

clearAll ==
    /\ documents' = <<>>
    /\ activeDocumentId' = Undefined
    /\ lastCall' = Call("clearAll", Undefined, <<>>)

setActiveDocument(id) ==
    /\ activeDocumentId' = IF HasDoc(documents, id) THEN id ELSE activeDocumentId
    /\ documents' = documents
    /\ lastCall' = Call("setActiveDocument", id, <<>>)

addField(documentId, field) ==
    /\ documents' = updateDocument(documents, documentId,
            [document \in Range(documents) |-> [document EXCEPT !.fields = Append(document.fields, field),
                                               !.selectedFieldId = field.id]])
    /\ activeDocumentId' = activeDocumentId
    /\ lastCall' = Call("addField", documentId, <<>>)

updateField(documentId, fieldId, updates) ==
    /\ documents' = updateDocument(documents, documentId,
            [document \in Range(documents) |-> [document EXCEPT !.fields =
                [i \in DOMAIN document.fields |->
                    IF document.fields[i].id = fieldId
                    THEN Spread(document.fields[i], updates)
                    ELSE document.fields[i]]]])
    /\ activeDocumentId' = activeDocumentId
    /\ lastCall' = [op |-> "updateField", documentId |-> documentId, candidates |-> <<>>,
                    repeated |-> FALSE, fieldId |-> fieldId, updates |-> updates]

removeField(documentId, fieldId) ==
    /\ documents' = updateDocument(documents, documentId,
            [document \in Range(documents) |-> [document EXCEPT
                !.fields = SelectSeq(document.fields, LAMBDA field : field.id # fieldId),
                !.selectedFieldId = IF document.selectedFieldId = fieldId
                                    THEN Undefined ELSE document.selectedFieldId]])
    /\ activeDocumentId' = activeDocumentId
    /\ lastCall' = Call("removeField", documentId, <<>>)

setFields(documentId, fields) ==
    /\ documents' = updateDocument(documents, documentId,
            [document \in Range(documents) |-> [document EXCEPT !.fields = fields,
                                               !.selectedFieldId = LastId(fields)]])
    /\ activeDocumentId' = activeDocumentId
    /\ lastCall' = Call("setFields", documentId, <<>>)

\* A merge into the document list a caller captured earlier.
mergeFields_FromSnapshot(documentId, candidates) ==
    /\ documents' = updateDocument(IF run.pc = "detecting" THEN run.snapshot ELSE documents,
            documentId,
            [document \in Range(documents) \cup Range(run.snapshot) |->
                mergedDocument(document, candidates)])
    /\ activeDocumentId' = activeDocumentId
    /\ lastCall' = Call("mergeFields", documentId, candidates)

mergeFields(documentId, candidates) ==
    /\ documents' = updateDocument(documents, documentId,
            [document \in Range(documents) |-> mergedDocument(document, candidates)])
    /\ activeDocumentId' = activeDocumentId
    /\ lastCall' = Call("mergeFields", documentId, candidates)

selectField(documentId, fieldId) ==
    /\ documents' = updateDocument(documents, documentId,
            [document \in Range(documents) |-> [document EXCEPT !.selectedFieldId = fieldId]])
    /\ activeDocumentId' = activeDocumentId
    /\ lastCall' = Call("selectField", documentId, <<>>)

(***************************************************************************)
(* Spec: every store operation, called with any arguments                  *)
(***************************************************************************)
DocIds == {"d1", "d2"}
\* File names are sequences of characters.
NameAPdf == <<"a", ".", "p", "d", "f">>
NameAPDF == <<"a", ".", "P", "D", "F">>
NameBTxt == <<"b", ".", "t", "x", "t">>

OnePage == <<PageMeta(0, 480, 640)>>
TwoPages == <<PageMeta(0, 480, 640), PageMeta(1, 480, 640)>>

\* The record ingestFiles hands to addDocument.
Entry(id, fileName, pages) ==
    [id |-> id, fileName |-> fileName, documentData |-> <<"bytes", id>>,
     pages |-> pages, fields |-> <<>>, selectedFieldId |-> Undefined]

\* Fields around the thresholds of the merge policy (10 in x and y, 15 in
\* width, same page): B is near A; C is 10 from A in x, F is 10 from A in y, and
\* C and F are near each other; D is 15 wider than A; E is D on another page.
FieldA == Field("f1", 0, 100, 100, 150, 24, "a")
FieldB == Field("f2", 0, 105, 103, 150, 24, "a")
FieldC == Field("f2", 0, 110, 103, 150, 30, "b")
FieldD == Field("f1", 0, 100, 100, 165, 24, "b")
FieldE == Field("f2", 1, 100, 100, 165, 24, "a")
FieldF == Field("f3", 0, 105, 110, 150, 24, "a")

\* Spec calls the store with these arguments.
FieldIds == {"f1", "f2"}
StoreFields == {FieldA, FieldB}
StorePatches == {[x |-> 105, y |-> 103]}
StoreEntry(id) == Entry(id, IF id = "d1" THEN NameAPdf ELSE NameBTxt, OnePage)

InitApp ==
    /\ detecting = FALSE
    /\ detectingDocumentId = Undefined
    /\ error = Null
    /\ exporting = FALSE
    /\ exportingAll = FALSE
RunIdle ==
    [pc |-> "idle", n |-> 0, snapshot |-> <<>>, doc |-> 0, page |-> 0,
     aggregated |-> <<>>, log |-> <<>>]
InitRun == run = RunIdle
InitExp ==
    /\ exp = [pc |-> "idle", snapshot |-> <<>>, files |-> <<>>, archive |-> <<>>]
    /\ expOne = [pc |-> "idle"]
InitGeo == geo = [op |-> "none"]
InitAux ==
    /\ loading = FALSE
    /\ ing = [pc |-> "idle", files |-> <<>>, next |-> 0, made |-> 0]
    /\ zip = [pc |-> "idle", files |-> <<>>, blob |-> <<>>]
    /\ scan = [pc |-> "idle", page |-> <<>>, items |-> <<>>, detected |-> <<>>]
    /\ placed = [pc |-> "idle"]
    /\ flights = [started |-> 0, open |-> <<>>]
NoCall == [op |-> "init", documentId |-> Undefined, candidates |-> <<>>, repeated |-> FALSE]

Init ==
    /\ documents = <<>>
    /\ activeDocumentId = Undefined
    /\ lastCall = NoCall
    /\ InitApp /\ InitRun /\ InitExp /\ InitAux /\ InitGeo

StoreOnly == UNCHANGED <<appVars, run, expOne, exp, geo, auxVars>>

RECURSIVE TotalFields(_)
TotalFields(docs) ==
    IF docs = <<>> THEN 0 ELSE Len(Head(docs).fields) + TotalFields(Tail(docs))

\* The model holds at most MaxFields fields at a time.
FieldsFit(n) == TotalFields(documents) + n <= MaxFields

StoreAddDocument ==
    \E id \in DocIds :
        /\ Len(documents) < MaxDocs
        /\ ~HasDoc(documents, id)
        /\ addDocument(StoreEntry(id))
        /\ StoreOnly

StoreRemoveDocument == \E id \in DocIds : removeDocument(id) /\ StoreOnly

StoreClearAll == clearAll /\ StoreOnly

StoreSetActiveDocument == \E id \in DocIds : setActiveDocument(id) /\ StoreOnly

StoreAddField ==
    \E d \in DocIds, field \in StoreFields :
        /\ FieldsFit(1)
        /\ addField(d, field)
        /\ StoreOnly

StoreUpdateField ==
    \E d \in DocIds, fieldId \in FieldIds, updates \in StorePatches :
        updateField(d, fieldId, updates) /\ StoreOnly

StoreRemoveField ==
    \E d \in DocIds, fieldId \in FieldIds : removeField(d, fieldId) /\ StoreOnly

StoreSetFields ==
    \E d \in DocIds, fields \in SeqsUpTo(StoreFields, MaxFields) :
        /\ \A i \in DocIndex(documents, d) :
                FieldsFit(Len(fields) - Len(documents[i].fields))
        /\ setFields(d, fields)
        /\ StoreOnly

\* What a merge into documentId would append.
Appended(documentId, candidates) ==
    IF HasDoc(documents, documentId)
    THEN Len(mergedDocument(DocOf(documents, documentId), candidates).fields)
         - Len(DocOf(documents, documentId).fields)
    ELSE 0

StoreMergeFields ==
    \E d \in DocIds, candidates \in SeqsUpTo(StoreFields, MaxCands) :
        /\ FieldsFit(Appended(d, candidates))
        /\ mergeFields(d, candidates)
        /\ StoreOnly

StoreSelectField ==
    \E d \in DocIds, fieldId \in FieldIds \cup {Undefined} :
        selectField(d, fieldId) /\ StoreOnly

Next ==
    \/ StoreAddDocument
    \/ StoreRemoveDocument
    \/ StoreClearAll
    \/ StoreSetActiveDocument
    \/ StoreAddField
    \/ StoreUpdateField
    \/ StoreRemoveField
    \/ StoreSetFields
    \/ StoreMergeFields
    \/ StoreSelectField

Spec == Init /\ [][Next]_vars

(***************************************************************************)
(* SpecMerge: one ingested document; detector output merged into it, and   *)
(* fields added and deleted by hand in between                             *)
(***************************************************************************)
MergeFieldSet == {FieldA, FieldC, FieldD, FieldE, FieldF}

InitMerge ==
    /\ documents = <<StoreEntry("d1")>>
    /\ activeDocumentId = "d1"
    /\ lastCall = [op |-> "addDocument", documentId |-> "d1", candidates |-> <<>>,
                   repeated |-> FALSE]
    /\ InitApp /\ InitRun /\ InitExp /\ InitAux /\ InitGeo

MergeCandidates ==
    \E candidates \in SeqsUpTo(MergeFieldSet, MaxCands) :
        /\ FieldsFit(Appended("d1", candidates))
        /\ mergeFields("d1", candidates)
        /\ StoreOnly

MergeManualAdd ==
    \E field \in MergeFieldSet :
        /\ FieldsFit(1)
        /\ addField("d1", field)
        /\ StoreOnly

MergeDelete ==
    \E fieldId \in {"f1", "f2", "f3"} : removeField("d1", fieldId) /\ StoreOnly

NextMerge == MergeCandidates \/ MergeManualAdd \/ MergeDelete

SpecMerge == InitMerge /\ [][NextMerge]_vars

(***************************************************************************)
(* Export: buildFillablePdf, handleExportCurrent, handleExportAll          *)
(***************************************************************************)
MaxExportDocs == 3
MaxExportFields == 2
MaxWidgetFields == 3

Lower(ch) == CASE ch = "P" -> "p" [] ch = "D" -> "d" [] ch = "F" -> "f" [] OTHER -> ch

\* fileName.replace(/\.pdf$/i, '') + '-fillable.pdf'
DerivedName(fileName) ==
    LET n == Len(fileName)
        matches == /\ n >= 4
                   /\ [i \in 1..4 |-> Lower(fileName[n - 4 + i])] = <<".", "p", "d", "f">>
        stem == IF matches THEN SubSeq(fileName, 1, n - 4) ELSE fileName
    IN  stem \o <<"-", "f", "i", "l", "l", "a", "b", "l", "e", ".", "p", "d", "f">>

\* const baseName = field.name || 'field'
BaseName(field) == IF field.name = "" THEN "field" ELSE field.name

\* document.pages[field.pageIndex] is defined
HasPage(document, field) == field.pageIndex + 1 \in DOMAIN document.pages

UsageCount(nameUsage, baseName) ==
    IF baseName \in DOMAIN nameUsage THEN nameUsage[baseName] ELSE 0

\* usageCount === 0 ? baseName : `${baseName}_${usageCount + 1}`
UniqueName(baseName, usageCount) ==
    IF usageCount = 0 THEN baseName ELSE baseName \o "_" \o ToString(usageCount + 1)

\* A JavaScript number that is a quotient of integers, den > 0.
Quotient(num, den) == [num |-> num, den |-> den]
Minus(a, b) == Quotient(a.num * b.den - b.num * a.den, a.den * b.den)
DividedByScale(value, pageMeta) ==
    Quotient(value.num * pageMeta.scaleDen, value.den * pageMeta.scaleNum)
SameNumber(a, b) == a.num * b.den = b.num * a.den
\* The integer a quotient stands for, on the grids where the division is exact.
Whole(value) == value.num \div value.den

\* Lines 504-508: the rectangle in PDF space, y measured from the bottom edge.
WidgetRectangle_TopEdge(pageMeta, field) ==
    LET x == DividedByScale(Quotient(field.x, 1), pageMeta)
        yFromTop == DividedByScale(Quotient(field.y, 1), pageMeta)
        width == DividedByScale(Quotient(field.width, 1), pageMeta)
        height == DividedByScale(Quotient(field.height, 1), pageMeta)
    IN  [x |-> x, y |-> Minus(Quotient(pageMeta.originalHeight, 1), yFromTop),
         width |-> width, height |-> height]
WidgetRectangle(pageMeta, field) ==
    LET x == DividedByScale(Quotient(field.x, 1), pageMeta)
        yFromTop == DividedByScale(Quotient(field.y, 1), pageMeta)
        width == DividedByScale(Quotient(field.width, 1), pageMeta)
        height == DividedByScale(Quotient(field.height, 1), pageMeta)
    IN  [x |-> x,
         y |-> Minus(Minus(Quotient(pageMeta.originalHeight, 1), yFromTop), height),
         width |-> width, height |-> height]

\* The text field created for `field` and the rectangle passed to addToPage.
Widget(document, field, uniqueName) ==
    LET rectangle == WidgetRectangle(document.pages[field.pageIndex + 1], field)
    IN  [name |-> uniqueName, pageIndex |-> field.pageIndex,
         x |-> Whole(rectangle.x), y |-> Whole(rectangle.y),
         width |-> Whole(rectangle.width), height |-> Whole(rectangle.height),
         text |-> IF "placeholder" \in DOMAIN field THEN field.placeholder ELSE "",
         multiline |-> field.multiline]

\* document.fields.forEach(...) with the nameUsage map.
RECURSIVE BuildWidgets(_, _, _, _)
BuildWidgets(document, fields, nameUsage, widgets) ==
    IF fields = <<>> THEN widgets
    ELSE LET field == Head(fields) IN
         IF ~HasPage(document, field)
         THEN BuildWidgets(document, Tail(fields), nameUsage, widgets)
         ELSE LET baseName == BaseName(field)
                  usageCount == UsageCount(nameUsage, baseName)
                  nextUsage == [n \in DOMAIN nameUsage \cup {baseName} |->
                                   IF n = baseName THEN usageCount + 1 ELSE nameUsage[n]]
              IN  BuildWidgets(document, Tail(fields), nextUsage,
                      Append(widgets, Widget(document, field, UniqueName(baseName, usageCount))))

\* The bytes buildFillablePdf resolves with: the source PDF plus the widgets.
buildFillablePdf(document) ==
    [source |-> document.documentData,
     widgets |-> BuildWidgets(document, document.fields, <<>>, <<>>)]

\* documents.find((document) => document.id === activeDocumentId)
HasActiveDocument == HasDoc(documents, activeDocumentId)
ActiveDocument == DocOf(documents, activeDocumentId)

\* handleExportCurrent up to its await.
ExportCurrentStart ==
    /\ ~exporting
    /\ expOne.pc # "building"
    /\ IF ~HasActiveDocument \/ Len(ActiveDocument.fields) = 0
       THEN /\ error' = "Nothing to export yet. Add fields first."
            /\ expOne' = [pc |-> "refused"]
            /\ exporting' = exporting
       ELSE /\ exporting' = TRUE
            /\ error' = Null
            /\ expOne' = [pc |-> "building", document |-> ActiveDocument]
    /\ UNCHANGED <<storeVars, detecting, detectingDocumentId, exportingAll, run, exp, geo, auxVars>>

\* buildFillablePdf resolved: the download is offered.
ExportCurrentResolve ==
    /\ expOne.pc = "building"
    /\ expOne' = [pc |-> "saved", document |-> expOne.document,
                  bytes |-> buildFillablePdf(expOne.document),
                  download |-> DerivedName(expOne.document.fileName)]
    /\ exporting' = FALSE
    /\ UNCHANGED <<storeVars, detecting, detectingDocumentId, error, exportingAll, run, exp, geo, auxVars>>

\* PDFDocument.load / embedFont / createTextField / save threw.
ExportCurrentThrow ==
    /\ expOne.pc = "building"
    /\ error' = "Export failed. Try again or refresh the page."
    /\ expOne' = [pc |-> "failed", document |-> expOne.document]
    /\ exporting' = FALSE
    /\ UNCHANGED <<storeVars, detecting, detectingDocumentId, exportingAll, run, exp, geo, auxVars>>

\* The index of the first document at or after `from` that has fields, or 0.
NextExportable_NoSkip(snapshot, from) ==
    IF from \in DOMAIN snapshot THEN from ELSE 0

NextExportable(snapshot, from) ==
    LET later == {i \in DOMAIN snapshot : i >= from /\ Len(snapshot[i].fields) > 0}
    IN  IF later = {} THEN 0 ELSE CHOOSE i \in later : \A j \in later : i <= j

\* Once the loop is through: with entries, createZipFromFiles(files) is called
\* (pc "zipped", archive = its argument).
FinishExportAll_ZipEmpty(snapshot, files) ==
    /\ error' = error
    /\ exp' = [pc |-> "zipped", snapshot |-> snapshot, files |-> files, archive |-> files]

FinishExportAll(snapshot, files) ==
    IF Len(files) = 0
    THEN /\ error' = "No fields found to export. Add fields before exporting."
         /\ exp' = [pc |-> "empty", snapshot |-> snapshot, files |-> files,
                    archive |-> <<>>]
    ELSE /\ error' = error
         /\ exp' = [pc |-> "zipped", snapshot |-> snapshot, files |-> files,
                    archive |-> files]

\* handleExportAll up to its first await.
ExportAllStart ==
    /\ ~exportingAll
    /\ exp.pc # "building"
    /\ LET snapshot == documents
           first == NextExportable(snapshot, 1)
       IN  IF Len(snapshot) = 0
           THEN /\ error' = "No documents to export."
                /\ exp' = [pc |-> "refused", snapshot |-> snapshot, files |-> <<>>,
                           archive |-> <<>>]
                /\ exportingAll' = exportingAll
           ELSE IF first = 0
           THEN /\ FinishExportAll(snapshot, <<>>)
                /\ exportingAll' = FALSE
           ELSE /\ error' = Null
                /\ exp' = [pc |-> "building", snapshot |-> snapshot, files |-> <<>>,
                           archive |-> <<>>, index |-> first]
                /\ exportingAll' = TRUE
    /\ UNCHANGED <<storeVars, detecting, detectingDocumentId, exporting, run, expOne, geo, auxVars>>

\* buildFillablePdf(document) resolved: the entry is pushed and the loop goes on.
ExportAllResolve ==
    /\ exp.pc = "building"
    /\ LET document == exp.snapshot[exp.index]
           files == Append(exp.files, [name |-> DerivedName(document.fileName),
                                       data |-> buildFillablePdf(document)])
           next == NextExportable(exp.snapshot, exp.index + 1)
       IN  IF next = 0
           THEN /\ FinishExportAll(exp.snapshot, files)
                /\ exportingAll' = FALSE
           ELSE /\ exp' = [exp EXCEPT !.files = files, !.index = next]
                /\ UNCHANGED <<error, exportingAll>>
    /\ UNCHANGED <<storeVars, detecting, detectingDocumentId, exporting, run, expOne, geo, auxVars>>

\* buildFillablePdf(document) threw: the catch around the whole loop runs.
ExportAllThrow ==
    /\ exp.pc = "building"
    /\ error' = "Failed to export all documents."
    /\ exp' = [pc |-> "failed", snapshot |-> exp.snapshot, files |-> exp.files,
               archive |-> <<>>, index |-> exp.index]
    /\ exportingAll' = FALSE
    /\ UNCHANGED <<storeVars, detecting, detectingDocumentId, exporting, run, expOne, geo, auxVars>>

(***************************************************************************)
(* SpecExport: up to MaxExportDocs ingested documents with up to           *)
(* MaxExportFields fields each; both export handlers, and fields deleted   *)
(* by hand while an export runs                                            *)
(***************************************************************************)
ExportDocIds == <<"d1", "d2", "d3", "d4">>
ExportFileName(id) ==
    CASE id = "d1" -> NameAPdf [] id = "d2" -> NameAPDF [] OTHER -> NameBTxt
ExportFieldList(n) ==
    [k \in 1..n |-> Field(IF k = 1 THEN "f1" ELSE IF k = 2 THEN "f2" ELSE "f3",
                          0, 100 * k, 100, 150, 25, "a")]

ExportStores ==
    UNION {{[i \in 1..n |->
                [Entry(ExportDocIds[i], ExportFileName(ExportDocIds[i]), OnePage)
                    EXCEPT !.fields = ExportFieldList(counts[i]),
                           !.selectedFieldId = LastId(ExportFieldList(counts[i]))]]
            : counts \in [1..n -> 0..MaxExportFields]}
           : n \in 0..Min(MaxExportDocs, Len(ExportDocIds))}

InitExport ==
    /\ documents \in ExportStores
    /\ activeDocumentId = IF Len(documents) = 0 THEN Undefined
                          ELSE documents[Len(documents)].id
    /\ lastCall = NoCall
    /\ InitApp /\ InitRun /\ InitExp /\ InitAux /\ InitGeo

ExportUserRemoveField ==
    /\ HasActiveDocument
    /\ \E fieldId \in FieldIdsOf(ActiveDocument) : removeField(activeDocumentId, fieldId)
    /\ StoreOnly

NextExport ==
    \/ ExportAllStart
    \/ ExportAllResolve
    \/ ExportAllThrow
    \/ ExportCurrentStart
    \/ ExportCurrentResolve
    \/ ExportCurrentThrow
    \/ ExportUserRemoveField

SpecExport == InitExport /\ [][NextExport]_vars

(***************************************************************************)
(* SpecWidgets: one document with up to MaxWidgetFields fields of any of   *)
(* these names, exported with handleExportCurrent                          *)
(***************************************************************************)
WidgetNames == {"a", "a_2", "", "field"}
WidgetFields ==
    {Field("f1", 0, 100, 100, 150, 25, n) : n \in WidgetNames}
        \cup {Field("f2", 1, 100, 100, 150, 25, "a")}

InitWidgets ==
    /\ \E fields \in SeqsUpTo(WidgetFields, MaxWidgetFields) :
           documents = <<[StoreEntry("d1") EXCEPT !.fields = fields,
                                                   !.selectedFieldId = LastId(fields)]>>
    /\ activeDocumentId = "d1"
    /\ lastCall = NoCall
    /\ InitApp /\ InitRun /\ InitExp /\ InitAux /\ InitGeo

NextWidgets == ExportCurrentStart \/ ExportCurrentResolve \/ ExportCurrentThrow

SpecWidgets == InitWidgets /\ [][NextWidgets]_vars

(***************************************************************************)
(* The detector: detectFieldsForPage, one underscore run of one text item  *)
(***************************************************************************)
MIN_UNDERSCORE_RUN == 8
DETECT_MIN_FIELD_WIDTH == 20
DETECT_MIN_FIELD_HEIGHT == 14
FIELD_VERTICAL_OFFSET == -2

\* buildGlyphMetrics: `glyphs` is what font.charsToGlyphs(item.str) returns, each
\* glyph [present, unicodeLength, width]; "null" when no usable font data.
RECURSIVE GlyphSegments(_, _, _)
GlyphSegments(glyphs, cursor, segments) ==
    IF glyphs = <<>> THEN segments
    ELSE LET glyph == Head(glyphs)
             span == IF glyph.unicodeLength > 0 THEN glyph.unicodeLength ELSE 1
         IN  IF ~glyph.present THEN GlyphSegments(Tail(glyphs), cursor, segments)
             ELSE GlyphSegments(Tail(glyphs), cursor + span,
                      Append(segments, [start |-> cursor, end |-> cursor + span,
                                        width |-> glyph.width]))

RECURSIVE SumWidths(_)
SumWidths(segments) ==
    IF segments = <<>> THEN 0 ELSE Head(segments).width + SumWidths(Tail(segments))

HasGlyphMetrics(glyphs) ==
    /\ glyphs # <<>>
    /\ SumWidths(GlyphSegments(glyphs, 0, <<>>)) # 0

buildGlyphMetrics(glyphs) ==
    LET segments == GlyphSegments(glyphs, 0, <<>>)
    IN  [totalUnits |-> SumWidths(segments), segments |-> segments]

\* measureRunUsingGlyphs: the loop over metrics.segments.
RECURSIVE MeasureSegments(_, _, _, _, _)
MeasureSegments(segments, runStart, runEnd, prefixUnits, runUnits) ==
    IF segments = <<>> THEN [prefix |-> prefixUnits, run |-> runUnits]
    ELSE LET segment == Head(segments)
             segmentSpan == Max(segment.end - segment.start, 1)
             before == IF segment.start < runStart
                       THEN (segment.width * (runStart - segment.start)) \div segmentSpan
                       ELSE 0
             overlapLength == Max(Min(segment.end, runEnd) - Max(segment.start, runStart), 0)
             inside == IF overlapLength > 0
                       THEN (segment.width * overlapLength) \div segmentSpan
                       ELSE 0
         IN  IF segment.end <= runStart
             THEN MeasureSegments(Tail(segments), runStart, runEnd,
                                  prefixUnits + segment.width, runUnits)
             ELSE IF segment.start >= runEnd
             THEN [prefix |-> prefixUnits, run |-> runUnits]
             ELSE MeasureSegments(Tail(segments), runStart, runEnd,
                                  prefixUnits + before, runUnits + inside)

measureRunUsingGlyphs(metrics, runStart, runLength) ==
    MeasureSegments(metrics.segments, runStart, runStart + runLength, 0, 0)

clampSize(value, min, available) ==
    LET safeAvailable == IF available > 0 THEN available ELSE min
        lowerBound == Min(min, safeAvailable)
        expanded == Max(value, lowerBound)
    IN  Min(expanded, safeAvailable)

\* viewport.convertToViewportRectangle of pdf.js for an unrotated page whose
\* viewport was made with pageMeta.scale: x' = x * scale, y' = (H - y) * scale.
ToViewport(pageMeta, v) == (v * pageMeta.scaleNum) \div pageMeta.scaleDen
convertToViewportRectangle(pageMeta, rect) ==
    <<ToViewport(pageMeta, rect[1]),
      ToViewport(pageMeta, pageMeta.originalHeight - rect[2]),
      ToViewport(pageMeta, rect[3]),
      ToViewport(pageMeta, pageMeta.originalHeight - rect[4])>>

\* Math.sqrt(transform[2] ** 2 + transform[3] ** 2) || 10, for an upright item
\* (transform[2] = 0, transform[3] = the font height).
FontHeight(item) == IF Abs(item.transform3) # 0 THEN Abs(item.transform3) ELSE 10

\* The measured width and start offset of a run, in content-space units.
Measure(item, startOffset, runLength) ==
    LET glyphCount == IF item.length # 0 THEN item.length ELSE 1
        charWidth == item.width \div glyphCount
        fallback == [width |-> charWidth * runLength, offset |-> charWidth * startOffset,
                     charWidth |-> charWidth]
    IN  IF ~HasGlyphMetrics(item.glyphs) THEN fallback
        ELSE LET metrics == buildGlyphMetrics(item.glyphs)
                 measured == measureRunUsingGlyphs(metrics, startOffset, runLength)
             IN  \* scale = itemWidth / totalUnits; scale > 0 && run > 0
                 IF item.width * metrics.totalUnits > 0 /\ measured.run > 0
                 THEN [width |-> (measured.run * item.width) \div metrics.totalUnits,
                       offset |-> (measured.prefix * item.width) \div metrics.totalUnits,
                       charWidth |-> charWidth]
                 ELSE fallback

\* The single element of a one-element set: each `const` of the code is bound
\* once, as a bound variable ranging over the singleton of its value.
Only(S) == CHOOSE v \in S : TRUE

\* Lines 1169-1212: from the viewport rectangle to the pushed Field.
RunPlacement(pageMeta, x0, rawWidth, rawHeight, centerY, pageFieldCount, id) ==
    LET minWidthTarget == Max(DETECT_MIN_FIELD_WIDTH,
                              IF rawWidth # 0 THEN rawWidth ELSE DETECT_MIN_FIELD_WIDTH)
        width0 == clampSize(rawWidth, DETECT_MIN_FIELD_WIDTH, pageMeta.width - x0)
        heightCandidate == clampSize(rawHeight, DETECT_MIN_FIELD_HEIGHT, pageMeta.height)
        x == Max(x0, 0)
    IN  Only({ LET ya == centerY - height
                   yb == IF ya < 0 THEN 0 ELSE ya
                   yc == IF yb + height > pageMeta.height
                         THEN Max(pageMeta.height - height, 0) ELSE yb
                   y == IF FIELD_VERTICAL_OFFSET # 0
                        THEN Min(Max(yc + FIELD_VERTICAL_OFFSET, 0),
                                 Max(pageMeta.height - height, 0))
                        ELSE yc
                   width == IF x + width1 > pageMeta.width
                            THEN Max(pageMeta.width - x, 1) ELSE width1
               IN  [id |-> id, pageIndex |-> pageMeta.index, x |-> x, y |-> y,
                    width |-> width, height |-> height, multiline |-> FALSE,
                    confidence |-> <<6, 10>>,
                    name |-> "page" \o ToString(pageMeta.index + 1) \o "_field_"
                                 \o ToString(pageFieldCount + 1)] :
               width1 \in {IF width0 < minWidthTarget
                           THEN Min(minWidthTarget, pageMeta.width - x0) ELSE width0},
               height \in {Min(heightCandidate, DETECT_MIN_FIELD_HEIGHT + 16)} })

\* Lines 1162-1173: the run's rectangle in content space, converted to the
\* viewport.
RunRectangle(pageMeta, fontHeight, sourceX, lineWidth, baseY, pageFieldCount, id) ==
    Only({ RunPlacement(pageMeta, Min(rect[1], rect[3]), Abs(rect[3] - rect[1]),
                        IF Abs(rect[4] - rect[2]) # 0 THEN Abs(rect[4] - rect[2])
                        ELSE (ToViewport(pageMeta, fontHeight) * 4) \div 10,
                        (rect[2] + rect[4]) \div 2, pageFieldCount, id) :
           rect \in {convertToViewportRectangle(pageMeta,
                         <<sourceX, baseY - (fontHeight * 6) \div 10,
                           sourceX + lineWidth, baseY + (fontHeight * 2) \div 10>>)} })

\* [...str.matchAll(/(_{3,})/g)]: the greedy matches of three or more
\* underscores, left to right, each as <<match.index, match[0].length>>.
\* `str` is a sequence of characters.
RECURSIVE UnderscoresFrom(_, _)
UnderscoresFrom(str, position) ==
    IF position > Len(str) \/ str[position] # "_" THEN 0
    ELSE 1 + UnderscoresFrom(str, position + 1)

RECURSIVE MatchesFrom(_, _)
MatchesFrom(str, position) ==
    IF position > Len(str) THEN <<>>
    ELSE Only({ IF length >= 3
                THEN <<<<position - 1, length>>>> \o MatchesFrom(str, position + length)
                ELSE MatchesFrom(str, position + 1) :
                length \in {UnderscoresFrom(str, position)} })

matchAll(str) == MatchesFrom(str, 1)

\* The body of `for (const match of matches)` for one match: the fields pushed
\* to `detected` (none or one).  pageFieldCount is the counter before the run.
RunFields_AnyMatch(pageMeta, item, startOffset, runLength, pageFieldCount, id) ==
    IF runLength < 3 THEN <<>>
    ELSE Only({ LET sourceX == IF item.dir = "rtl"
                               THEN item.transform4 - (m.offset + m.width)
                               ELSE item.transform4 + m.offset
                    fallbackWidth == IF m.charWidth > 0 THEN m.charWidth * runLength
                                     ELSE item.width
                    lineWidth == IF m.width > 0 THEN m.width ELSE fallbackWidth
                IN  IF ~(lineWidth > 0) THEN <<>>
                    ELSE <<RunRectangle(pageMeta, FontHeight(item), sourceX, lineWidth,
                                        item.transform5, pageFieldCount, id)>> :
                m \in {Measure(item, startOffset, runLength)} })
RunFields(pageMeta, item, startOffset, runLength, pageFieldCount, id) ==
    IF runLength < MIN_UNDERSCORE_RUN THEN <<>>
    ELSE Only({ LET sourceX == IF item.dir = "rtl"
                               THEN item.transform4 - (m.offset + m.width)
                               ELSE item.transform4 + m.offset
                    fallbackWidth == IF m.charWidth > 0 THEN m.charWidth * runLength
                                     ELSE item.width
                    lineWidth == IF m.width > 0 THEN m.width ELSE fallbackWidth
                IN  IF ~(lineWidth > 0) THEN <<>>
                    ELSE <<RunRectangle(pageMeta, FontHeight(item), sourceX, lineWidth,
                                        item.transform5, pageFieldCount, id)>> :
                m \in {Measure(item, startOffset, runLength)} })

\* The loops of detectFieldsForPage over textContent.items and over the matches
\* of an item: item.matches is [...str.matchAll(/(_{3,})/g)] as pairs
\* <<index, length>>; pageFieldCount is the number of fields pushed so far, and
\* makeId() returns idBase followed by a number nothing else has.
RECURSIVE DetectMatches(_, _, _, _, _)
DetectMatches(pageMeta, item, matches, detected, idBase) ==
    IF matches = <<>> THEN detected
    ELSE DetectMatches(pageMeta, item, Tail(matches),
             detected \o RunFields(pageMeta, item, Head(matches)[1], Head(matches)[2],
                                   Len(detected), idBase \o ToString(Len(detected) + 1)),
             idBase)

RECURSIVE DetectItems(_, _, _, _)
DetectItems(pageMeta, items, detected, idBase) ==
    IF items = <<>> THEN detected
    ELSE DetectItems(pageMeta, Tail(items),
             DetectMatches(pageMeta, Head(items), Head(items).matches, detected, idBase),
             idBase)

detectFieldsForPage(pageMeta, items, idBase) == DetectItems(pageMeta, items, <<>>, idBase)

(***************************************************************************)
(* The editor: FieldOverlay.startInteraction / onPointerMove and           *)
(* handleAddFieldAt                                                        *)
(***************************************************************************)
MIN_FIELD_WIDTH == 80
MIN_FIELD_HEIGHT == 22

clamp(value, min, max) == Min(Max(value, min), max)

HandleHas(handle, letter) ==
    CASE letter = "n" -> handle \in {"nw", "ne"}
      [] letter = "s" -> handle \in {"sw", "se"}
      [] letter = "w" -> handle \in {"nw", "sw"}
      [] letter = "e" -> handle \in {"ne", "se"}

\* The partial Field that onPointerMove passes to onUpdate.
onPointerMove(origin, handle, pageMeta, dx, dy) ==
    IF handle = "none"
    THEN [x |-> clamp(origin.x + dx, 0, pageMeta.width - origin.width),
          y |-> clamp(origin.y + dy, 0, pageMeta.height - origin.height)]
    ELSE LET newY == clamp(origin.y + dy, 0, origin.y + origin.height - MIN_FIELD_HEIGHT)
             nextN == IF HandleHas(handle, "n")
                      THEN [origin EXCEPT !.y = newY,
                               !.height = clamp(origin.height + (origin.y - newY),
                                                MIN_FIELD_HEIGHT, pageMeta.height)]
                      ELSE origin
             nextS == IF HandleHas(handle, "s")
                      THEN [nextN EXCEPT !.height = clamp(origin.height + dy, MIN_FIELD_HEIGHT,
                                                          pageMeta.height - origin.y)]
                      ELSE nextN
             newX == clamp(origin.x + dx, 0, origin.x + origin.width - MIN_FIELD_WIDTH)
             nextW == IF HandleHas(handle, "w")
                      THEN [nextS EXCEPT !.x = newX,
                               !.width = clamp(origin.width + (origin.x - newX),
                                               MIN_FIELD_WIDTH, pageMeta.width)]
                      ELSE nextS
             next == IF HandleHas(handle, "e")
                     THEN [nextW EXCEPT !.width = clamp(origin.width + dx, MIN_FIELD_WIDTH,
                                                        pageMeta.width - origin.x)]
                     ELSE nextW
             boundedX == clamp(next.x, 0, pageMeta.width - next.width)
             boundedY == clamp(next.y, 0, pageMeta.height - next.height)
         IN  [x |-> boundedX, y |-> boundedY,
              width |-> Min(next.width, pageMeta.width - boundedX),
              height |-> Min(next.height, pageMeta.height - boundedY)]

(***************************************************************************)
(* handleAutoDetect and detectFields                                       *)
(***************************************************************************)
DetectFailedMessage ==
    "Auto-detect failed on one or more documents. You can still add fields manually."

\* detectFields: `for (const meta of pages)` has run out of pages after this one.
detectFieldsDone_FirstPage(document, page) == TRUE
detectFieldsDone(document, page) == page >= Len(document.pages)

\* The index of the document the loop of handleAutoDetect goes to after the
\* catch block of document i.
AfterCatch_Abort(i, snapshot) == Len(snapshot) + 1
AfterCatch(i, snapshot) == i + 1

handleAutoDetectStart ==
    /\ ~detecting
    /\ run.pc # "detecting"
    /\ Len(documents) > 0
    /\ detecting' = TRUE
    /\ detectingDocumentId' = documents[1].id
    /\ error' = Null
    /\ run' = [pc |-> "detecting", n |-> run.n + 1, snapshot |-> documents, doc |-> 1,
               page |-> 1, aggregated |-> <<>>, log |-> <<>>]
    /\ UNCHANGED <<storeVars, exporting, exportingAll>>

\* The loop goes on to document `next` of the snapshot, or the run ends.  The log
\* records, per document, how its detection ended, how many pages had resolved
\* and the fields they had returned (merged, or dropped with the rejection).
DetectGoTo(next, entry) ==
    IF next > Len(run.snapshot)
    THEN /\ detecting' = FALSE
         /\ detectingDocumentId' = Undefined
         /\ run' = [run EXCEPT !.pc = "done", !.aggregated = <<>>,
                               !.log = Append(run.log, entry)]
    ELSE /\ detecting' = detecting
         /\ detectingDocumentId' = run.snapshot[next].id
         /\ run' = [run EXCEPT !.doc = next, !.page = 1, !.aggregated = <<>>,
                               !.log = Append(run.log, entry)]

\* getPage and detectFieldsForPage resolve for the current page; after the last
\* page detectFields resolves and handleAutoDetect merges what it returned.
DetectPageResolve(items) ==
    /\ run.pc = "detecting"
    /\ LET document == run.snapshot[run.doc]
           meta == document.pages[run.page]
           idBase == "r" \o ToString(run.n) \o "_" \o document.id \o "_p"
                         \o ToString(meta.index) \o "_"
           aggregated == run.aggregated \o detectFieldsForPage(meta, items, idBase)
       IN  IF detectFieldsDone(document, run.page)
           THEN /\ mergeFields(document.id, aggregated)
                /\ DetectGoTo(run.doc + 1,
                              [documentId |-> document.id, outcome |-> "merged",
                               pages |-> run.page, candidates |-> aggregated])
                /\ UNCHANGED <<error, exporting, exportingAll>>
           ELSE /\ run' = [run EXCEPT !.page = run.page + 1, !.aggregated = aggregated]
                /\ UNCHANGED <<storeVars, appVars>>

\* getPage or detectFieldsForPage rejects for the current page: the catch block.
DetectPageThrow ==
    /\ run.pc = "detecting"
    /\ error' = DetectFailedMessage
    /\ DetectGoTo(AfterCatch(run.doc, run.snapshot),
                  [documentId |-> run.snapshot[run.doc].id, outcome |-> "failed",
                   pages |-> run.page - 1, candidates |-> run.aggregated])
    /\ UNCHANGED <<storeVars, exporting, exportingAll>>

(***************************************************************************)
(* SpecGeom: one document with one page; a field is detected from one      *)
(* underscore run or added by hand, then dragged and resized               *)
(***************************************************************************)
MaxInteractions == 1

GeomPage == PageMeta(0, 240, 160)


RECURSIVE Glyphs(_, _)
Glyphs(n, width) ==
    IF n = 0 THEN <<>>
    ELSE <<[present |-> TRUE, unicodeLength |-> 1, width |-> width]>> \o Glyphs(n - 1, width)

\* 20 one-character glyphs, or the same line with characters 9 and 10 drawn by
\* one two-character glyph; <<>> when the font has no glyph data.
UniformGlyphs == Glyphs(20, 500)
LigatureGlyphs ==
    Glyphs(9, 500) \o <<[present |-> TRUE, unicodeLength |-> 2, width |-> 1000]>>
                   \o Glyphs(9, 500)
GeomGlyphs == {<<>>, UniformGlyphs, LigatureGlyphs}

GeomItems ==
    [length : {20}, width : {0, 80, 160}, transform3 : {20, 40},
     transform4 : {0, 160, 240, 280}, transform5 : {8, 80}, dir : {"ltr", "rtl"},
     glyphs : GeomGlyphs, matches : {<<>>}]
GeomRuns == {<<0, 3>>, <<0, 8>>, <<10, 10>>}
GeomClicks == {0, 100, 280}
GeomDeltas == {-40, 0, 40}
Handles == {"none", "nw", "ne", "sw", "se"}

GeoIdle(op, detected, count) ==
    [op |-> op, dragging |-> FALSE, handle |-> "none", fieldId |-> Undefined,
     origin |-> [x |-> 0, y |-> 0, width |-> 0, height |-> 0],
     detected |-> detected, count |-> count]

InitGeom ==
    /\ documents = <<Entry("d1", NameAPdf, <<GeomPage>>)>>
    /\ activeDocumentId = "d1"
    /\ lastCall = [op |-> "addDocument", documentId |-> "d1", candidates |-> <<>>,
                   repeated |-> FALSE]
    /\ InitApp /\ InitRun /\ InitExp /\ InitAux
    /\ geo = GeoIdle("none", <<>>, 0)

GeomOnly == UNCHANGED <<appVars, run, expOne, exp, auxVars>>

\* detectFieldsForPage on a page whose text content is one item with one run,
\* followed by the merge of what it returned.
GeomDetect ==
    \E item \in GeomItems, match \in GeomRuns :
        LET detected == detectFieldsForPage(GeomPage,
                            <<[item EXCEPT !.matches = <<match>>]>>, "f")
        IN  /\ ~geo.dragging
            /\ DocOf(documents, "d1").fields = <<>>
            /\ mergeFields("d1", detected)
            /\ geo' = GeoIdle("detect", detected, geo.count)
            /\ GeomOnly

handleAddFieldAt(pageIndex, rawX, rawY, id) ==
    /\ HasActiveDocument
    /\ \E i \in DOMAIN ActiveDocument.pages : ActiveDocument.pages[i].index = pageIndex
    /\ LET pageMeta == CHOOSE meta \in Range(ActiveDocument.pages) : meta.index = pageIndex
           perPageCount == Cardinality({i \in DOMAIN ActiveDocument.fields :
                               ActiveDocument.fields[i].pageIndex = pageIndex}) + 1
       IN  addField(ActiveDocument.id,
               Field(id, pageIndex, clamp(rawX, 0, pageMeta.width - 150),
                     clamp(rawY, 0, pageMeta.height - 24), 150, 24,
                     "page" \o ToString(pageIndex + 1) \o "_manual_"
                            \o ToString(perPageCount)))

GeomAddFieldAt ==
    \E rawX \in GeomClicks, rawY \in GeomClicks :
        /\ ~geo.dragging
        /\ DocOf(documents, "d1").fields = <<>>
        /\ handleAddFieldAt(0, rawX, rawY, "f1")
        /\ geo' = GeoIdle("add", <<>>, geo.count)
        /\ GeomOnly

\* startInteraction: select the field and capture its rectangle as the origin.
GeomPointerDown ==
    \E handle \in Handles :
        /\ ~geo.dragging
        /\ geo.count < MaxInteractions
        /\ DocOf(documents, "d1").fields # <<>>
        /\ LET field == DocOf(documents, "d1").fields[1]
           IN  /\ selectField("d1", field.id)
               /\ geo' = [geo EXCEPT !.op = "down", !.dragging = TRUE, !.handle = handle,
                             !.fieldId = field.id,
                             !.origin = [x |-> field.x, y |-> field.y,
                                         width |-> field.width, height |-> field.height]]
        /\ GeomOnly

GeomPointerMove ==
    \E dx \in GeomDeltas, dy \in GeomDeltas :
        /\ geo.dragging
        /\ updateField("d1", geo.fieldId,
                       onPointerMove(geo.origin, geo.handle, GeomPage, dx, dy))
        /\ geo' = [geo EXCEPT !.op = IF geo.handle = "none" THEN "move" ELSE "resize"]
        /\ GeomOnly

GeomPointerUp ==
    /\ geo.dragging
    /\ geo' = GeoIdle("up", geo.detected, geo.count + 1)
    /\ UNCHANGED <<storeVars, appVars, run, expOne, exp, auxVars>>

NextGeom ==
    \/ GeomDetect
    \/ GeomAddFieldAt
    \/ GeomPointerDown
    \/ GeomPointerMove
    \/ GeomPointerUp

SpecGeom == InitGeom /\ [][NextGeom]_vars

(***************************************************************************)
(* SpecDetect: auto-detect runs over three ingested documents while the    *)
(* user edits the store                                                    *)
(***************************************************************************)
MaxRuns == 1

DetectPages(n) == [i \in 1..n |-> PageMeta(i - 1, 240, 160)]
DetectDocs ==
    <<Entry("d1", NameAPdf, DetectPages(2)), Entry("d2", NameAPDF, DetectPages(1)),
      Entry("d3", NameBTxt, DetectPages(1))>>

\* Text items with one underscore run each, on two baselines.
ItemA == [length |-> 20, width |-> 160, transform3 |-> 20, transform4 |-> 40,
          transform5 |-> 120, dir |-> "ltr", glyphs |-> <<>>, matches |-> <<<<0, 10>>>>]
ItemB == [length |-> 20, width |-> 160, transform3 |-> 20, transform4 |-> 40,
          transform5 |-> 40, dir |-> "ltr", glyphs |-> UniformGlyphs,
          matches |-> <<<<0, 3>>, <<10, 10>>>>]
DetectContents == {<<>>, <<ItemA, ItemB>>}
ManualField == Field("m1", 0, 200, 150, 150, 24, "page1_manual_1")

InitDetect ==
    /\ documents = DetectDocs
    /\ activeDocumentId = "d3"
    /\ lastCall = [op |-> "addDocument", documentId |-> "d3", candidates |-> <<>>,
                   repeated |-> FALSE]
    /\ InitApp /\ InitRun /\ InitExp /\ InitAux /\ InitGeo

DetectStart ==
    /\ run.n < MaxRuns
    /\ handleAutoDetectStart
    /\ UNCHANGED <<expOne, exp, geo, auxVars>>

DetectResolve ==
    \E items \in DetectContents :
        DetectPageResolve(items) /\ UNCHANGED <<expOne, exp, geo, auxVars>>

DetectThrow == DetectPageThrow /\ UNCHANGED <<expOne, exp, geo, auxVars>>

DetectUserAddField ==
    /\ HasDoc(documents, "d1")
    /\ "m1" \notin FieldIdsOf(DocOf(documents, "d1"))
    /\ addField("d1", ManualField)
    /\ StoreOnly

\* The user deletes the first field of d1.
DetectUserRemoveField ==
    /\ HasDoc(documents, "d1")
    /\ DocOf(documents, "d1").fields # <<>>
    /\ removeField("d1", DocOf(documents, "d1").fields[1].id)
    /\ StoreOnly

DetectUserRemoveDocument == removeDocument("d2") /\ HasDoc(documents, "d2") /\ StoreOnly

NextDetect ==
    \/ DetectStart
    \/ DetectResolve
    \/ DetectThrow
    \/ DetectUserAddField
    \/ DetectUserRemoveField
    \/ DetectUserRemoveDocument

SpecDetect == InitDetect /\ [][NextDetect]_vars

(***************************************************************************)
(* The archive writer: CRC32_TABLE, computeCrc32, toDosDate and            *)
(* createZipFromFiles.  Bytes are 0..255.                                  *)
(***************************************************************************)
Pow2(n) == 2 ^ n

\* a ^ b, a & b and a | b on the low `bits` bits.
RECURSIVE BitXor(_, _, _)
BitXor(a, b, bits) ==
    IF bits = 0 THEN 0
    ELSE (((a % 2) + (b % 2)) % 2) + 2 * BitXor(a \div 2, b \div 2, bits - 1)

RECURSIVE BitAnd(_, _, _)
BitAnd(a, b, bits) ==
    IF bits = 0 THEN 0
    ELSE ((a % 2) * (b % 2)) + 2 * BitAnd(a \div 2, b \div 2, bits - 1)

BitOr(a, b, bits) == a + b - BitAnd(a, b, bits)

\* An unsigned 32-bit word is held as its four bytes, low byte first.
ToWord(n) == <<n % 256, (n \div 256) % 256, (n \div 65536) % 256, (n \div 16777216) % 256>>
WordXor(a, b) ==
    CHOOSE word \in {[i \in 1..4 |-> BitXor(x[i], y[i], 8)] : x \in {a}, y \in {b}} : TRUE
\* value >>> 1 and value >>> 8
ShiftRight1(w) ==
    CHOOSE word \in {[i \in 1..4 |-> (x[i] \div 2) + (IF i < 4 THEN (x[i + 1] % 2) * 128 ELSE 0)] :
                     x \in {w}} : TRUE
ShiftRight8(w) == <<w[2], w[3], w[4], 0>>

\* 0xedb88320
Polynomial == <<32, 131, 184, 237>>
\* 0xffffffff
AllOnes == <<255, 255, 255, 255>>

\* The inner loop of the table initialiser: j rounds on `value`.
RECURSIVE TableValue(_, _)
TableValue(value, j) ==
    IF j = 0 THEN value
    ELSE TableValue(IF value[1] % 2 # 0 THEN WordXor(Polynomial, ShiftRight1(value))
                    ELSE ShiftRight1(value), j - 1)

CRC32_TABLE == [i \in 0..255 |-> TableValue(ToWord(i), 8)]

RECURSIVE Crc32Loop(_, _)
Crc32Loop(crc, data) ==
    IF data = <<>> THEN crc
    ELSE LET lookupIndex == BitXor(crc[1], Head(data), 8)
         IN  Crc32Loop(WordXor(ShiftRight8(crc), CRC32_TABLE[lookupIndex]), Tail(data))

computeCrc32_NoFinalXor(data) == Crc32Loop(AllOnes, data)
computeCrc32(data) == WordXor(Crc32Loop(AllOnes, data), AllOnes)

\* A Date as its local calendar fields; month is 0-based as getMonth() is.
toDosDate(date) ==
    [dosTime |-> BitOr(BitOr((date.hours % 32) * Pow2(11), (date.minutes % 64) * Pow2(5), 32),
                       (date.seconds \div 2) % 32, 32),
     dosDate |-> BitOr(BitOr(((Max(1980, Min(date.year, 2107)) - 1980) % 128) * Pow2(9),
                             ((date.month + 1) % 16) * Pow2(5), 32),
                       date.day % 32, 32)]

\* TextEncoder.encode: UTF-8 of a string given as its sequence of code points.
Utf8(codePoint) ==
    IF codePoint < 128 THEN <<codePoint>>
    ELSE IF codePoint < 2048
    THEN <<192 + (codePoint \div 64), 128 + (codePoint % 64)>>
    ELSE IF codePoint < 65536
    THEN <<224 + (codePoint \div 4096), 128 + ((codePoint \div 64) % 64),
           128 + (codePoint % 64)>>
    ELSE <<240 + (codePoint \div 262144), 128 + ((codePoint \div 4096) % 64),
           128 + ((codePoint \div 64) % 64), 128 + (codePoint % 64)>>

RECURSIVE encode(_)
encode(name) == IF name = <<>> THEN <<>> ELSE Utf8(Head(name)) \o encode(Tail(name))

\* view.setUint32(pointer, value >>> 0, true) and view.setUint16(pointer,
\* value & 0xffff, true): the bytes written, low byte first.
writeUint32(word) == word
writeUint16(value) == <<(value % 65536) % 256, (value % 65536) \div 256>>

\* file.date ?? new Date(): `now` is the clock when the entry is mapped; the
\* optional date is <<>> or <<date>>.
EntryDate_ClockOnly(file, now) == now
EntryDate(file, now) == IF file.date = <<>> THEN now ELSE file.date[1]

\* files.map(...): the EntryMeta of one file, before the offsets are assigned.
EntryMeta(file, now) ==
    LET nameBytes == encode(file.name)
        dos == toDosDate(EntryDate(file, now))
    IN  [name |-> file.name, nameBytes |-> nameBytes, data |-> file.data,
         crc32 |-> computeCrc32(file.data), dosTime |-> dos.dosTime,
         dosDate |-> dos.dosDate, localHeaderLength |-> 30 + Len(nameBytes),
         centralHeaderLength |-> 46 + Len(nameBytes), localHeaderOffset |-> 0]

\* The first forEach: entry.localHeaderOffset = offset; offset += ...
RECURSIVE AssignOffsets_HeadersOnly(_, _)
AssignOffsets_HeadersOnly(metadata, offset) ==
    IF metadata = <<>> THEN <<>>
    ELSE <<[Head(metadata) EXCEPT !.localHeaderOffset = offset]>>
         \o AssignOffsets_HeadersOnly(Tail(metadata),
                                      offset + Head(metadata).localHeaderLength)

RECURSIVE AssignOffsets(_, _)
AssignOffsets(metadata, offset) ==
    IF metadata = <<>> THEN <<>>
    ELSE <<[Head(metadata) EXCEPT !.localHeaderOffset = offset]>>
         \o AssignOffsets(Tail(metadata),
                          offset + Head(metadata).localHeaderLength + Len(Head(metadata).data))

LocalRecord(entry) ==
    writeUint32(ToWord(67324752)) \o writeUint16(20) \o writeUint16(0) \o writeUint16(0)
    \o writeUint16(entry.dosTime) \o writeUint16(entry.dosDate) \o writeUint32(entry.crc32)
    \o writeUint32(ToWord(Len(entry.data))) \o writeUint32(ToWord(Len(entry.data)))
    \o writeUint16(Len(entry.nameBytes)) \o writeUint16(0)
    \o entry.nameBytes \o entry.data

CentralRecord(entry) ==
    writeUint32(ToWord(33639248)) \o writeUint16(20) \o writeUint16(20) \o writeUint16(0)
    \o writeUint16(0) \o writeUint16(entry.dosTime) \o writeUint16(entry.dosDate)
    \o writeUint32(entry.crc32) \o writeUint32(ToWord(Len(entry.data)))
    \o writeUint32(ToWord(Len(entry.data))) \o writeUint16(Len(entry.nameBytes))
    \o writeUint16(0) \o writeUint16(0) \o writeUint16(0) \o writeUint16(0)
    \o writeUint32(ToWord(0)) \o writeUint32(ToWord(entry.localHeaderOffset)) \o entry.nameBytes

RECURSIVE WriteLocals(_)
WriteLocals(metadata) ==
    IF metadata = <<>> THEN <<>>
    ELSE LocalRecord(Head(metadata)) \o WriteLocals(Tail(metadata))

RECURSIVE WriteCentrals(_)
WriteCentrals(metadata) ==
    IF metadata = <<>> THEN <<>>
    ELSE CentralRecord(Head(metadata)) \o WriteCentrals(Tail(metadata))

RECURSIVE SumCentral(_)
SumCentral(metadata) ==
    IF metadata = <<>> THEN 0
    ELSE Head(metadata).centralHeaderLength + SumCentral(Tail(metadata))

EndRecord(count, centralDirectorySize, centralDirectoryOffset) ==
    writeUint32(ToWord(101010256)) \o writeUint16(0) \o writeUint16(0) \o writeUint16(count)
    \o writeUint16(count) \o writeUint32(ToWord(centralDirectorySize))
    \o writeUint32(ToWord(centralDirectoryOffset)) \o writeUint16(0)

\* The bytes of the Blob createZipFromFiles returns; clock[i] is what new Date()
\* gives while file i is mapped.
createZipFromFiles(files, clock) ==
    LET metadata == AssignOffsets([i \in DOMAIN files |-> EntryMeta(files[i], clock[i])], 0)
        locals == WriteLocals(metadata)
        centralDirectoryOffset == Len(locals)
    IN  locals \o WriteCentrals(metadata)
        \o EndRecord(Len(metadata), SumCentral(metadata), centralDirectoryOffset)

(***************************************************************************)
(* SpecZip: createZipFromFiles is called with a list of entries, and again *)
(* with the same names and bytes; computeCrc32 is applied to byte strings  *)
(***************************************************************************)
MaxZipFiles == 2
MaxCrcLen == 2

\* Entries named "a.pdf" and "é", whose UTF-8 encoding has two bytes.
DateA == [year |-> 2024, month |-> 0, day |-> 15, hours |-> 10, minutes |-> 30,
          seconds |-> 20]
DateB == [year |-> 1979, month |-> 11, day |-> 31, hours |-> 23, minutes |-> 59,
          seconds |-> 59]
ZipEntries ==
    {[name |-> <<97, 46, 112, 100, 102>>, data |-> <<1, 2, 3>>, date |-> <<>>],
     [name |-> <<97, 46, 112, 100, 102>>, data |-> <<1, 2, 3>>, date |-> <<DateA>>],
     [name |-> <<233>>, data |-> <<>>, date |-> <<>>],
     [name |-> <<233>>, data |-> <<255>>, date |-> <<DateA>>]}
\* The clock readings of one call: it may tick from DateA to DateB on the way.
ZipClocks(n) == {[i \in 1..n |-> IF i <= k THEN DateA ELSE DateB] : k \in 0..n}
CrcBytes == {0, 1, 2, 49, 127, 128, 254, 255}

ZipOnly == UNCHANGED <<storeVars, appVars, run, expOne, exp, geo, loading, ing, scan, placed,
                      flights>>

InitZip ==
    /\ documents = <<>>
    /\ activeDocumentId = Undefined
    /\ lastCall = NoCall
    /\ InitApp /\ InitRun /\ InitExp /\ InitAux /\ InitGeo

ZipResult(pc, files, clock, previous) ==
    [pc |-> pc, files |-> files, clock |-> clock,
     blob |-> createZipFromFiles(files, clock), previous |-> previous]

ZipCall ==
    \E files \in SeqsUpTo(ZipEntries, MaxZipFiles) :
        \E clock \in ZipClocks(Len(files)) :
            /\ zip.pc = "idle"
            /\ zip' = ZipResult("called", files, clock, <<>>)
            /\ ZipOnly

\* A second call with the same names and bytes; dates and clock are free.
ZipCallAgain ==
    \E files \in SeqsUpTo(ZipEntries, MaxZipFiles) :
        \E clock \in ZipClocks(Len(files)) :
            /\ zip.pc = "called"
            /\ Len(files) = Len(zip.files)
            /\ \A i \in DOMAIN files :
                   files[i].name = zip.files[i].name /\ files[i].data = zip.files[i].data
            /\ zip' = ZipResult("again", files, clock,
                                <<[files |-> zip.files, clock |-> zip.clock,
                                   blob |-> zip.blob]>>)
            /\ ZipOnly

ZipCrc ==
    \E data \in SeqsUpTo(CrcBytes, MaxCrcLen) :
        /\ zip.pc = "idle"
        /\ zip' = [pc |-> "crc", data |-> data, crc32 |-> computeCrc32(data)]
        /\ ZipOnly

ZipForget ==
    /\ zip.pc \in {"again", "crc"}
    /\ zip' = [pc |-> "idle", files |-> <<>>, blob |-> <<>>]
    /\ ZipOnly

NextZip ==
    \/ ZipCall
    \/ ZipCallAgain
    \/ ZipCrc
    \/ ZipForget

SpecZip == InitZip /\ [][NextZip]_vars

(***************************************************************************)
(* SpecScan: detectFieldsForPage on the text content of a page             *)
(***************************************************************************)
MaxChunks == 3
ScanCharWidth == 4
ScanSecondX == 200

Underscores(n) == [i \in 1..n |-> "_"]
ScanChunks == {<<"a">>, Underscores(4), Underscores(10)}

RECURSIVE Concat(_)
Concat(chunks) == IF chunks = <<>> THEN <<>> ELSE Head(chunks) \o Concat(Tail(chunks))

ScanStrings == {Concat(chunks) : chunks \in SeqsUpTo(ScanChunks, MaxChunks)}

\* A TextItem of pdf.js on an upright left-to-right line whose font has no
\* glyph data: item.width is the line's width in content space.
TextItem(str, width, baseX, baseY) ==
    [str |-> str, length |-> Len(str), width |-> width, transform3 |-> 20,
     transform4 |-> baseX, transform5 |-> baseY, dir |-> "ltr", glyphs |-> <<>>,
     matches |-> matchAll(str)]

\* The first line of the page is drawn with every character ScanCharWidth wide
\* or has no width; the second line starts at ScanSecondX, below the first.
ScanFirstStrings ==
    {Underscores(4), Underscores(10), Underscores(10) \o <<"a">> \o Underscores(10)}
ScanFirstItems ==
    {TextItem(str, Len(str) * charWidth, 0, 80) :
        str \in ScanFirstStrings, charWidth \in {0, ScanCharWidth}}
ScanSecondItems ==
    {TextItem(str, Len(str) * ScanCharWidth, ScanSecondX, 40) : str \in ScanStrings}
ScanContents == {<<first, second>> : first \in ScanFirstItems, second \in ScanSecondItems}
ScanPages == {PageMeta(0, 640, 128), PageMeta(2, 640, 128)}

ScanOnly == UNCHANGED <<storeVars, appVars, run, expOne, exp, geo, loading, ing, zip, placed,
                       flights>>

ScanPage ==
    \E pageMeta \in ScanPages, items \in ScanContents :
        /\ scan.pc = "idle"
        /\ scan' = [pc |-> "done", page |-> pageMeta, items |-> items,
                    detected |-> detectFieldsForPage(pageMeta, items, "f")]
        /\ ScanOnly

ScanForget ==
    /\ scan.pc = "done"
    /\ scan' = [pc |-> "idle", page |-> <<>>, items |-> <<>>, detected |-> <<>>]
    /\ ScanOnly

NextScan == ScanPage \/ ScanForget

SpecScan == Init /\ [][NextScan]_vars

(***************************************************************************)
(* SpecRace: handleAutoDetect interleaved with the user's store operations *)
(***************************************************************************)
RaceDocs ==
    <<[Entry("d1", NameAPdf, DetectPages(1)) EXCEPT !.fields = <<ManualField, FieldA>>,
                                                 !.selectedFieldId = "f1"],
      Entry("d2", NameAPDF, DetectPages(1))>>
RaceContents == {<<>>, <<ItemA>>}
RaceField == Field("m2", 0, 20, 20, 150, 24, "page1_manual_2")
RacePatch == [x |-> 10, name |-> "renamed"]

InitRace ==
    /\ documents = RaceDocs
    /\ activeDocumentId = "d2"
    /\ lastCall = [op |-> "addDocument", documentId |-> "d2", candidates |-> <<>>,
                   repeated |-> FALSE]
    /\ InitApp /\ InitRun /\ InitExp /\ InitAux /\ InitGeo

RaceStart ==
    /\ run.n < MaxRuns
    /\ handleAutoDetectStart
    /\ UNCHANGED <<expOne, exp, geo, auxVars>>

RaceResolve ==
    \E items \in RaceContents :
        DetectPageResolve(items) /\ UNCHANGED <<expOne, exp, geo, auxVars>>

RaceThrow == DetectPageThrow /\ UNCHANGED <<expOne, exp, geo, auxVars>>

\* The user's operations while detection is awaited.
RaceAddField ==
    /\ run.pc = "detecting"
    /\ HasDoc(documents, "d1")
    /\ "m2" \notin FieldIdsOf(DocOf(documents, "d1"))
    /\ addField("d1", RaceField)
    /\ StoreOnly

RaceUpdateField ==
    \E fieldId \in {"m1", "f1"} :
        /\ run.pc = "detecting"
        /\ HasDoc(documents, "d1")
        /\ \E k \in DOMAIN DocOf(documents, "d1").fields :
               /\ DocOf(documents, "d1").fields[k].id = fieldId
               /\ DocOf(documents, "d1").fields[k].x # RacePatch.x
        /\ updateField("d1", fieldId, RacePatch)
        /\ StoreOnly

RaceRemoveField ==
    \E fieldId \in {"m1", "f1"} :
        /\ run.pc = "detecting"
        /\ HasDoc(documents, "d1")
        /\ fieldId \in FieldIdsOf(DocOf(documents, "d1"))
        /\ removeField("d1", fieldId)
        /\ StoreOnly

RaceRemoveDocument ==
    \E id \in {"d1", "d2"} :
        /\ run.pc = "detecting"
        /\ HasDoc(documents, id)
        /\ removeDocument(id)
        /\ StoreOnly

NextRace ==
    \/ RaceStart
    \/ RaceResolve
    \/ RaceThrow
    \/ RaceAddField
    \/ RaceUpdateField
    \/ RaceRemoveField
    \/ RaceRemoveDocument

SpecRace == InitRace /\ [][NextRace]_vars

(***************************************************************************)
(* SpecIngest: ingestFiles over a batch of files                           *)
(***************************************************************************)
MaxBatch == 3

\* file.name.toLowerCase().endsWith('.pdf')
IsPdfName(name) ==
    /\ Len(name) >= 4
    /\ [i \in 1..4 |-> Lower(name[Len(name) - 4 + i])] = <<".", "p", "d", "f">>

RECURSIVE NameString(_)
NameString(name) == IF name = <<>> THEN "" ELSE Head(name) \o NameString(Tail(name))

UploadPdfMessage == "Please upload PDF documents (.pdf)."
ReadFailedMessage(name) ==
    "Failed to read " \o NameString(name) \o ". Make sure the file is not corrupted."

\* A File of the batch: `readable` tells whether file.arrayBuffer(), getDocument
\* and getPage all resolve; `pages` is the PageMeta list built from the document.
IngestFiles ==
    {[name |-> NameAPdf, readable |-> TRUE, pages |-> OnePage],
     [name |-> NameAPDF, readable |-> TRUE, pages |-> TwoPages],
     [name |-> NameAPdf, readable |-> FALSE, pages |-> <<>>],
     [name |-> NameBTxt, readable |-> TRUE, pages |-> OnePage],
     [name |-> <<"p", "d", "f">>, readable |-> TRUE, pages |-> OnePage]}

IngestOnly ==
    UNCHANGED <<detectingDocumentId, run, expOne, exp, geo, zip, scan, placed, flights>>

\* The position of the loop after the catch block, and after `continue` or the
\* end of the try block.
IngestAfterCatch_Abort(state) == [state EXCEPT !.next = Len(state.files) + 1]
IngestAfterCatch(state) == [state EXCEPT !.next = @ + 1]
IngestNextFile(state) == [state EXCEPT !.next = @ + 1]

\* The loop has left its last iteration: setLoading(false).
IngestPosition(state) ==
    /\ ing' = [state EXCEPT !.pc = IF state.next > Len(state.files) THEN "done"
                                   ELSE "running"]
    /\ loading' = IF state.next > Len(state.files) THEN FALSE ELSE loading

\* ingestFiles up to its loop.
ingestFiles(files) ==
    /\ ing.pc = "idle"
    /\ files # <<>>
    /\ error' = Null
    /\ loading' = TRUE
    /\ detecting' = FALSE
    /\ exporting' = FALSE
    /\ exportingAll' = FALSE
    /\ ing' = [pc |-> "running", files |-> files, next |-> 1, made |-> 0]
    /\ UNCHANGED storeVars
    /\ IngestOnly

ingestFilesStart == \E files \in SeqsUpTo(IngestFiles, MaxBatch) : ingestFiles(files)

\* One iteration for a file whose name does not end in .pdf.
IngestSkip ==
    /\ ing.pc = "running"
    /\ ~IsPdfName(ing.files[ing.next].name)
    /\ error' = UploadPdfMessage
    /\ IngestPosition(IngestNextFile(ing))
    /\ UNCHANGED <<storeVars, detecting, exporting, exportingAll>>
    /\ IngestOnly

\* One iteration whose awaits all resolve: addDocument with a new id.
IngestResolve ==
    /\ ing.pc = "running"
    /\ IsPdfName(ing.files[ing.next].name)
    /\ ing.files[ing.next].readable
    /\ addDocument(Entry("doc_" \o ToString(ing.made + 1), ing.files[ing.next].name,
                         ing.files[ing.next].pages))
    /\ IngestPosition(IngestNextFile([ing EXCEPT !.made = @ + 1]))
    /\ UNCHANGED appVars
    /\ IngestOnly

\* One iteration in which an await rejects: the catch block.
IngestThrow ==
    /\ ing.pc = "running"
    /\ IsPdfName(ing.files[ing.next].name)
    /\ ~ing.files[ing.next].readable
    /\ error' = ReadFailedMessage(ing.files[ing.next].name)
    /\ IngestPosition(IngestAfterCatch(ing))
    /\ UNCHANGED <<storeVars, detecting, exporting, exportingAll>>
    /\ IngestOnly

NextIngest == ingestFilesStart \/ IngestSkip \/ IngestResolve \/ IngestThrow

SpecIngest == Init /\ [][NextIngest]_vars

(***************************************************************************)
(* SpecClicks: uploads and auto-detect clicks, as the toolbar allows them  *)
(***************************************************************************)
MaxClicks == 2

ClickDocs == <<Entry("d1", NameAPdf, DetectPages(1))>>
ClickBatches ==
    {<<[name |-> NameAPdf, readable |-> TRUE, pages |-> OnePage]>>,
     <<[name |-> NameBTxt, readable |-> TRUE, pages |-> OnePage],
       [name |-> NameAPdf, readable |-> FALSE, pages |-> <<>>]>>}
ClickDetected == {<<>>, <<FieldA>>}

InitClicks ==
    /\ documents = ClickDocs
    /\ activeDocumentId = "d1"
    /\ lastCall = [op |-> "addDocument", documentId |-> "d1", candidates |-> <<>>,
                   repeated |-> FALSE]
    /\ InitApp /\ InitRun /\ InitExp /\ InitAux /\ InitGeo

Without1(seq, r) == [k \in 1..(Len(seq) - 1) |-> IF k < r THEN seq[k] ELSE seq[k + 1]]

ClickOnly == UNCHANGED <<exporting, exportingAll, run, expOne, exp, geo, loading, ing, zip,
                         scan, placed>>

\* The file input, disabled={loading}: handleFileChange calls ingestFiles.
ClickUpload ==
    \E files \in ClickBatches :
        /\ ~loading
        /\ ingestFiles(files)

\* The auto-detect button, disabled={detecting || loading || !documents.length}:
\* handleAutoDetect up to its first await.
ClickAutoDetect ==
    /\ ~(detecting \/ loading \/ Len(documents) = 0)
    /\ flights.started < MaxClicks
    /\ detecting' = TRUE
    /\ detectingDocumentId' = documents[1].id
    /\ error' = Null
    /\ flights' = [started |-> flights.started + 1,
                   open |-> Append(flights.open, [snapshot |-> documents, doc |-> 1])]
    /\ UNCHANGED storeVars
    /\ ClickOnly

\* The loop of call r goes on to document `next` of its snapshot, or the call
\* returns after setDetecting(false).
FlightGoTo(r, next) ==
    IF next > Len(flights.open[r].snapshot)
    THEN /\ detecting' = FALSE
         /\ detectingDocumentId' = Undefined
         /\ flights' = [flights EXCEPT !.open = Without1(flights.open, r)]
    ELSE /\ detecting' = detecting
         /\ detectingDocumentId' = flights.open[r].snapshot[next].id
         /\ flights' = [flights EXCEPT !.open[r].doc = next]

\* detectFields resolves for the current document of call r: mergeFields.
FlightResolve ==
    \E r \in DOMAIN flights.open, detected \in ClickDetected :
        /\ mergeFields(flights.open[r].snapshot[flights.open[r].doc].id, detected)
        /\ FlightGoTo(r, flights.open[r].doc + 1)
        /\ error' = error
        /\ ClickOnly

\* detectFields rejects for the current document of call r: the catch block.
FlightThrow ==
    \E r \in DOMAIN flights.open :
        /\ error' = DetectFailedMessage
        /\ FlightGoTo(r, AfterCatch(flights.open[r].doc, flights.open[r].snapshot))
        /\ UNCHANGED storeVars
        /\ ClickOnly

NextClicks ==
    \/ ClickUpload
    \/ IngestSkip
    \/ IngestResolve
    \/ IngestThrow
    \/ ClickAutoDetect
    \/ FlightResolve
    \/ FlightThrow

SpecClicks == InitClicks /\ [][NextClicks]_vars

(***************************************************************************)
(* SpecPlace: the rectangle buildFillablePdf computes for one field        *)
(***************************************************************************)
PlaceScales == {<<5, 4>>, <<1, 1>>, <<2, 3>>, <<3, 1>>}
PlaceHeights == {160, 792}
PlacePages ==
    {[PageMeta(0, 640, originalHeight) EXCEPT
          !.scaleNum = scale[1], !.scaleDen = scale[2],
          !.width = (640 * scale[1]) \div scale[2],
          !.height = (originalHeight * scale[1]) \div scale[2]] :
        originalHeight \in PlaceHeights, scale \in PlaceScales}
PlaceFields ==
    {Field("f1", 0, x, y, width, height, "a") :
        x \in {0, 1, 3, 100}, y \in {0, 7, 50}, width \in {1, 80, 150},
        height \in {1, 22, 24}}

PlaceOnly ==
    UNCHANGED <<storeVars, appVars, run, expOne, exp, geo, loading, ing, zip, scan, flights>>

PlaceWidget ==
    \E pageMeta \in PlacePages, field \in PlaceFields :
        /\ placed.pc = "idle"
        /\ placed' = [pc |-> "done", page |-> pageMeta, field |-> field,
                      rectangle |-> WidgetRectangle(pageMeta, field)]
        /\ PlaceOnly

PlaceForget ==
    /\ placed.pc = "done"
    /\ placed' = [pc |-> "idle"]
    /\ PlaceOnly

NextPlace == PlaceWidget \/ PlaceForget

SpecPlace == Init /\ [][NextPlace]_vars

(***************************************************************************)
(* SpecDocs: the document-level operations, addDocument with fresh ids     *)
(***************************************************************************)
MaxListed == 3
ListedIds == {"d1", "d2", "d3", "d4"}
CalledIds == ListedIds \cup {"d9"}

DocsAddDocument ==
    \E id \in ListedIds :
        /\ Len(documents) < MaxListed
        /\ ~HasDoc(documents, id)
        /\ addDocument(StoreEntry(id))
        /\ StoreOnly

DocsRemoveDocument == \E id \in CalledIds : removeDocument(id) /\ StoreOnly

DocsClearAll == clearAll /\ StoreOnly

DocsSetActiveDocument == \E id \in CalledIds : setActiveDocument(id) /\ StoreOnly

NextDocs ==
    \/ DocsAddDocument
    \/ DocsRemoveDocument
    \/ DocsClearAll
    \/ DocsSetActiveDocument

SpecDocs == Init /\ [][NextDocs]_vars

(***************************************************************************)
(* SpecFields: the field-level operations on a store of two documents,     *)
(* called with known and unknown document and field ids                    *)
(***************************************************************************)
MaxFrameFields == 2
FrameDocIds == {"d1", "d9"}
FrameFieldIds == {"f1", "f2", "f9"}
FramePatches == {[x |-> 105, name |-> "b"]}

\* d1, the document the calls name, lies between two documents that have
\* fields and a selection of their own.
FrameDocs ==
    <<[Entry("d2", NameAPDF, TwoPages) EXCEPT !.fields = <<ManualField>>,
                                              !.selectedFieldId = "m1"],
      StoreEntry("d1"),
      [Entry("d3", NameBTxt, OnePage) EXCEPT !.fields = <<FieldA, FieldB>>]>>

InitFields ==
    /\ documents = FrameDocs
    /\ activeDocumentId = "d3"
    /\ lastCall = [op |-> "addDocument", documentId |-> "d3", candidates |-> <<>>,
                   repeated |-> FALSE]
    /\ InitApp /\ InitRun /\ InitExp /\ InitAux /\ InitGeo

FrameFit(documentId, n) ==
    \A i \in DocIndex(documents, documentId) :
        Len(documents[i].fields) + n <= MaxFrameFields

FrameAddField ==
    \E d \in FrameDocIds, field \in StoreFields :
        /\ FrameFit(d, 1)
        /\ addField(d, field)
        /\ StoreOnly

FrameUpdateField ==
    \E d \in FrameDocIds, fieldId \in FrameFieldIds, updates \in FramePatches :
        updateField(d, fieldId, updates) /\ StoreOnly

FrameRemoveField ==
    \E d \in FrameDocIds, fieldId \in FrameFieldIds : removeField(d, fieldId) /\ StoreOnly

FrameSetFields ==
    \E d \in FrameDocIds, fields \in SeqsUpTo(StoreFields, MaxFrameFields) :
        setFields(d, fields) /\ StoreOnly

FrameMergeFields ==
    \E d \in FrameDocIds, candidates \in SeqsUpTo(StoreFields, 1) :
        /\ FrameFit(d, Appended(d, candidates))
        /\ mergeFields(d, candidates)
        /\ StoreOnly

FrameSelectField ==
    \E d \in FrameDocIds, fieldId \in FrameFieldIds \cup {Undefined} :
        selectField(d, fieldId) /\ StoreOnly

NextFields ==
    \/ FrameAddField
    \/ FrameUpdateField
    \/ FrameRemoveField
    \/ FrameSetFields
    \/ FrameMergeFields
    \/ FrameSelectField

SpecFields == InitFields /\ [][NextFields]_vars

(***************************************************************************)
(* Claims about the store                                                  *)
(***************************************************************************)
\* The merge policy as the specification words it.
Near(a, b) ==
    /\ a.pageIndex = b.pageIndex
    /\ Abs(a.x - b.x) < 10
    /\ Abs(a.y - b.y) < 10
    /\ Abs(a.width - b.width) < 15

\* The candidates at the indices K, in list order.
Pick(candidates, K) ==
    [k \in 1..Cardinality(K) |->
        candidates[CHOOSE i \in K : Cardinality({j \in K : j <= i}) = k]]

\* K is the set of accepted candidates: a candidate is accepted exactly when
\* neither a field of `before` nor an earlier accepted candidate is near it.
AcceptedSet(before, candidates, K) ==
    \A i \in DOMAIN candidates :
        i \in K <=> ~ \E e \in Range(before) \cup {candidates[j] : j \in {j \in K : j < i}} :
                          Near(e, candidates[i])

\* C1: mergeFields appends to the document's fields, in list order, exactly the
\* candidates that have no field near them (same page, |dx| < 10, |dy| < 10,
\* |dwidth| < 15; height not compared) among the pre-existing fields and the
\* candidates accepted earlier in the same call, and discards the others.
C1_MergeDiscardsExactlyNearCandidates ==
    [][lastCall'.op = "mergeFields" =>
        \E K \in SUBSET DOMAIN lastCall'.candidates :
            /\ AcceptedSet(DocOf(documents, "d1").fields, lastCall'.candidates, K)
            /\ DocOf(documents', "d1").fields =
                   DocOf(documents, "d1").fields \o Pick(lastCall'.candidates, K)]_vars

\* C is appended (10 from A in x) and F, near C, is discarded although it is
\* not near A.
C1_Witness ==
    /\ lastCall.op = "mergeFields"
    /\ lastCall.candidates = <<FieldC, FieldF>>
    /\ DocOf(documents, "d1").fields = <<FieldA, FieldC>>

\* C2: a mergeFields call that repeats the previous call (same document, same
\* candidate list) leaves the document's list of fields as the first call left it.
C2_MergeIdempotent ==
    [][lastCall'.repeated =>
        DocOf(documents', "d1").fields = DocOf(documents, "d1").fields]_vars

C2_Witness ==
    /\ lastCall.repeated
    /\ lastCall.candidates = <<FieldA, FieldE>>
    /\ DocOf(documents, "d1").fields = <<FieldA, FieldE>>

\* C3: each document's selectedFieldId is absent or the id of one of its fields.
C3_SelectedFieldExists ==
    \A i \in DOMAIN documents :
        \/ documents[i].selectedFieldId = Undefined
        \/ documents[i].selectedFieldId \in FieldIdsOf(documents[i])

(***************************************************************************)
(* Claims about the export                                                 *)
(***************************************************************************)
\* The fields buildFillablePdf makes widgets for, in processing order.
Processed(document) == SelectSeq(document.fields, LAMBDA field : HasPage(document, field))

\* How many of the first i processed fields have the base name of the i-th.
Occurrence(processed, i) ==
    Cardinality({j \in 1..i : BaseName(processed[j]) = BaseName(processed[i])})

\* C4: the names passed to createTextField are pairwise distinct; the first
\* field with a base name keeps it and the k-th occurrence (k >= 2) is named
\* base_k, in processing order.
C4_WidgetNamesDistinct ==
    expOne.pc = "saved" =>
        LET widgets == expOne.bytes.widgets
            processed == Processed(expOne.document)
        IN  /\ \A i, j \in DOMAIN widgets : i # j => widgets[i].name # widgets[j].name
            /\ Len(widgets) = Len(processed)
            /\ \A i \in DOMAIN widgets :
                   LET k == Occurrence(processed, i)
                   IN  widgets[i].name =
                           IF k = 1 THEN BaseName(processed[i])
                           ELSE BaseName(processed[i]) \o "_" \o ToString(k)

\* The documents of a list that have at least one field, in list order.
WithFields(snapshot) == SelectSeq(snapshot, LAMBDA document : Len(document.fields) > 0)

\* C7: when one document's synthesis throws in handleExportAll and another
\* document of the snapshot was synthesized, the archive is still produced and
\* holds the entries of the documents that succeeded.
C7_FailureAbortsOnlyThatDocument ==
    (exp.pc = "failed" /\ Len(exp.files) > 0) =>
        /\ exp.pc = "zipped"
        /\ \A i \in DOMAIN exp.files : \E j \in DOMAIN exp.archive :
               exp.archive[j] = exp.files[i]

\* C10: the entries handed to createZipFromFiles are one per document of the
\* snapshot that has at least one field, in snapshot order, and no others.
C10_ArchiveEntriesAreDocumentsWithFields ==
    exp.pc = "zipped" =>
        /\ Len(exp.archive) = Len(WithFields(exp.snapshot))
        /\ \A i \in DOMAIN exp.archive :
               /\ exp.archive[i].data.source = WithFields(exp.snapshot)[i].documentData
               /\ exp.archive[i].name = DerivedName(WithFields(exp.snapshot)[i].fileName)

\* An archive of two entries from a snapshot of three documents, the middle one
\* without fields.
C10_Witness ==
    /\ exp.pc = "zipped"
    /\ Len(exp.snapshot) = 3
    /\ Len(exp.snapshot[2].fields) = 0
    /\ Len(exp.archive) = 2

(***************************************************************************)
(* Claims about the geometry                                               *)
(***************************************************************************)
InsidePage(r, pageMeta) ==
    /\ 0 <= r.x
    /\ 0 <= r.y
    /\ r.x + r.width <= pageMeta.width
    /\ r.y + r.height <= pageMeta.height

\* C5: every field that detectFieldsForPage returns lies inside the page
\* (0 <= x, 0 <= y, x + width <= page.width, y + height <= page.height), is at
\* least 80 wide and 22 high, and has confidence 0.6.
C5_DetectedFieldsSatisfyFieldInvariants ==
    geo.op = "detect" =>
        \A i \in DOMAIN geo.detected :
            LET field == geo.detected[i]
            IN  /\ InsidePage(field, GeomPage)
                /\ field.width >= MIN_FIELD_WIDTH
                /\ field.height >= MIN_FIELD_HEIGHT
                /\ field.confidence = <<6, 10>>

\* C6: for an original rectangle inside the page, every displacement and every
\* resize handle, the rectangle the resize step writes is at least 80 wide and 22
\* high, lies inside the page, and keeps the edges opposite to the handle where
\* they were in the original.
C6_ResizeKeepsMinimumPageAndOppositeEdges ==
    (geo.op = "resize" /\ InsidePage(geo.origin, GeomPage)) =>
        LET field == DocOf(documents, "d1").fields[1]
            origin == geo.origin
        IN  /\ field.width >= MIN_FIELD_WIDTH
            /\ field.height >= MIN_FIELD_HEIGHT
            /\ InsidePage(field, GeomPage)
            /\ HandleHas(geo.handle, "n") => field.y + field.height = origin.y + origin.height
            /\ HandleHas(geo.handle, "s") => field.y = origin.y
            /\ HandleHas(geo.handle, "w") => field.x + field.width = origin.x + origin.width
            /\ HandleHas(geo.handle, "e") => field.x = origin.x

(***************************************************************************)
(* Claims about auto-detect                                                *)
(***************************************************************************)
IdsOf(fields) == {fields[i].id : i \in DOMAIN fields}
StoreFieldIds == UNION {FieldIdsOf(documents[i]) : i \in DOMAIN documents}
LogOf(outcome) == {k \in DOMAIN run.log : run.log[k].outcome = outcome}

\* No field of a detection that is under way or that was rejected is in the
\* store, and a run logs a document at most once.
NoPartialFields ==
    /\ run.pc = "detecting" => IdsOf(run.aggregated) \cap StoreFieldIds = {}
    /\ \A k \in LogOf("failed") : IdsOf(run.log[k].candidates) \cap StoreFieldIds = {}
    /\ \A k, l \in DOMAIN run.log :
           run.log[k].documentId = run.log[l].documentId => k = l

\* A step of the detection run changes the store only when all pages of the
\* current document have resolved, and then by one mergeFields call with all the
\* fields they returned.
SingleMergeStep ==
    run' # run =>
        IF Len(run'.log) > Len(run.log) /\ run'.log[Len(run'.log)].outcome = "merged"
        THEN LET entry == run'.log[Len(run'.log)]
                 document == run.snapshot[run.doc]
             IN  /\ entry.documentId = document.id
                 /\ entry.pages = Len(document.pages)
                 /\ documents' = updateDocument(documents, entry.documentId,
                        [d \in Range(documents) |-> mergedDocument(d, entry.candidates)])
        ELSE documents' = documents

\* C8: detection leaves no partial results in the store: a document's candidates
\* are merged by a single mergeFields call after all its pages resolved, a
\* document whose detection threw gets no field of the run, and the run does not
\* change the store between the start of a document's detection and that merge.
C8_DetectionLeavesNoPartialResults == []NoPartialFields /\ [][SingleMergeStep]_vars

\* A run ended in which the first page of a document resolved with fields and its
\* second page threw, and another document's fields were merged into the store.
C8_Witness ==
    /\ run.pc = "done"
    /\ \E k \in LogOf("failed") : run.log[k].candidates # <<>>
    /\ \E k \in LogOf("merged") :
           /\ run.log[k].candidates # <<>>
           /\ HasDoc(documents, run.log[k].documentId)
           /\ IdsOf(run.log[k].candidates)
                  \subseteq FieldIdsOf(DocOf(documents, run.log[k].documentId))

\* C9: when detection throws for a document, the run still goes through every
\* document of the snapshot in order, detecting all pages of and merging every
\* document that does not throw; the error message is set and the run ends with
\* detecting = false.
C9_FailureDoesNotStopTheRun ==
    (run.pc = "done" /\ LogOf("failed") # {}) =>
        /\ Len(run.log) = Len(run.snapshot)
        /\ \A k \in DOMAIN run.log :
               /\ run.log[k].documentId = run.snapshot[k].id
               /\ run.log[k].outcome = "merged" =>
                      run.log[k].pages = Len(run.snapshot[k].pages)
        /\ error = DetectFailedMessage
        /\ detecting = FALSE
        /\ detectingDocumentId = Undefined

\* A run ended in which the second of three documents threw and the documents
\* before and after it were merged with fields.
C9_Witness ==
    /\ run.pc = "done"
    /\ Len(run.log) = 3
    /\ run.log[2].outcome = "failed"
    /\ run.log[1].outcome = "merged" /\ run.log[1].candidates # <<>>
    /\ run.log[3].outcome = "merged" /\ run.log[3].candidates # <<>>
    /\ HasDoc(documents, "d3")
    /\ IdsOf(run.log[3].candidates) \subseteq FieldIdsOf(DocOf(documents, "d3"))

(***************************************************************************)
(* Claims about exports with nothing to export                             *)
(***************************************************************************)
NoFieldsAnywhere == \A i \in DOMAIN documents : Len(documents[i].fields) = 0

\* A call of handleExportCurrent with no active document or an active document
\* without fields sets the error and does not reach buildFillablePdf.
ExportCurrentRefuses ==
    (expOne' # expOne /\ expOne.pc # "building"
        /\ (~HasActiveDocument \/ Len(ActiveDocument.fields) = 0)) =>
        /\ error' = "Nothing to export yet. Add fields first."
        /\ expOne'.pc = "refused"
        /\ exporting' = exporting

\* A call of handleExportAll over documents that all have no fields sets the
\* error, does not reach createZipFromFiles and leaves exportingAll false.
ExportAllRefuses ==
    (exp' # exp /\ exp.pc # "building" /\ NoFieldsAnywhere) =>
        /\ error' = IF Len(documents) = 0 THEN "No documents to export."
                    ELSE "No fields found to export. Add fields before exporting."
        /\ exp'.pc \in {"refused", "empty"}
        /\ exp'.archive = <<>>
        /\ exp'.files = <<>>
        /\ exportingAll' = FALSE

\* C11: an export with no fields produces no bytes and reports an error:
\* handleExportCurrent without an active document or with an active document
\* without fields sets the error and never calls buildFillablePdf;
\* handleExportAll over documents that all have no fields sets the error, never
\* calls createZipFromFiles and ends with exportingAll = false.
C11_EmptyExportsAreRefused == [][ExportCurrentRefuses /\ ExportAllRefuses]_vars

\* Both handlers have refused an export over a store of documents without
\* fields.
C11_Witness ==
    /\ Len(documents) > 0
    /\ NoFieldsAnywhere
    /\ exp.pc = "empty"
    /\ expOne.pc = "refused"

(***************************************************************************)
(* Claims about the archive                                                *)
(***************************************************************************)
Slice(blob, position, length) == SubSeq(blob, position + 1, position + length)
U16At(blob, position) == blob[position + 1] + 256 * blob[position + 2]
U32At(blob, position) == U16At(blob, position) + 65536 * U16At(blob, position + 2)

\* The number of bytes of a file name.
RECURSIVE NameLen(_)
NameLen(name) ==
    IF name = <<>> THEN 0
    ELSE (IF Head(name) < 128 THEN 1 ELSE IF Head(name) < 2048 THEN 2
          ELSE IF Head(name) < 65536 THEN 3 ELSE 4) + NameLen(Tail(name))

\* Where the i-th local header and the i-th central record must start.
RECURSIVE LocalPosition(_, _)
LocalPosition(files, i) ==
    IF i = 1 THEN 0
    ELSE LocalPosition(files, i - 1) + 30 + NameLen(files[i - 1].name)
             + Len(files[i - 1].data)

RECURSIVE CentralPosition(_, _)
CentralPosition(files, i) ==
    IF i = 1 THEN LocalPosition(files, Len(files) + 1)
    ELSE CentralPosition(files, i - 1) + 46 + NameLen(files[i - 1].name)

ZipCalled == zip.pc \in {"called", "again"}

\* C12: createZipFromFiles writes sum(30 + nameLen + dataLen) + sum(46 + nameLen)
\* + 22 bytes; the i-th central-directory record stores the position at which
\* the i-th local header was written; the end record holds the entry count, the
\* central directory's size and the offset at which it starts.
C12_ArchiveLayout ==
    ZipCalled =>
        LET files == zip.files
            blob == zip.blob
            n == Len(files)
            directory == CentralPosition(files, 1)
            end == CentralPosition(files, n + 1)
        IN  /\ Len(blob) = end + 22
            /\ \A i \in 1..n :
                   LET local == LocalPosition(files, i)
                       central == CentralPosition(files, i)
                   IN  /\ U32At(blob, local) = 67324752
                       /\ U16At(blob, local + 26) = NameLen(files[i].name)
                       /\ Slice(blob, local + 30 + NameLen(files[i].name),
                                Len(files[i].data)) = files[i].data
                       /\ U32At(blob, central) = 33639248
                       /\ U32At(blob, central + 42) = local
            /\ U32At(blob, end) = 101010256
            /\ U16At(blob, end + 8) = n
            /\ U16At(blob, end + 10) = n
            /\ U32At(blob, end + 12) = end - directory
            /\ U32At(blob, end + 16) = directory

\* The archive of one entry a.pdf with data 1, 2, 3 has 111 bytes and reports
\* one entry.
C12_Witness ==
    /\ zip.pc = "called"
    /\ Len(zip.files) = 1
    /\ zip.files[1].name = <<97, 46, 112, 100, 102>>
    /\ zip.files[1].data = <<1, 2, 3>>
    /\ Len(zip.blob) = 111
    /\ U16At(zip.blob, 111 - 22 + 10) = 1

\* The timestamp each entry of a call gets.
Timestamps(files, clock) ==
    [i \in DOMAIN files |-> IF files[i].date = <<>> THEN clock[i] ELSE files[i].date[1]]

SameEntriesAndTimestamps ==
    /\ zip.pc = "again"
    /\ Timestamps(zip.files, zip.clock)
           = Timestamps(zip.previous[1].files, zip.previous[1].clock)

\* C13: two calls of createZipFromFiles with the same ordered entries (names and
\* bytes) and the same timestamps produce byte-identical output.
C13_ArchiveDeterministic == SameEntriesAndTimestamps => zip.blob = zip.previous[1].blob

\* Two calls over two entries with the same timestamps, given by file.date in
\* one call and read from the clock in the other.
C13_Witness ==
    /\ SameEntriesAndTimestamps
    /\ Len(zip.files) = 2
    /\ zip.files # zip.previous[1].files
    /\ zip.clock # zip.previous[1].clock

\* The reflected CRC-32 with polynomial 0xEDB88320, bit by bit.
RECURSIVE ReferenceBits(_, _)
ReferenceBits(crc, bits) ==
    IF bits = 0 THEN crc
    ELSE Only({ReferenceBits(next, bits - 1) :
               next \in {IF crc[1] % 2 = 1
                         THEN WordXor(ShiftRight1(crc), <<32, 131, 184, 237>>)
                         ELSE ShiftRight1(crc)}})

RECURSIVE ReferenceLoop(_, _)
ReferenceLoop(crc, data) ==
    IF data = <<>> THEN crc
    ELSE Only({ReferenceLoop(next, Tail(data)) :
               next \in {ReferenceBits(WordXor(crc, <<Head(data), 0, 0, 0>>), 8)}})

ReferenceCrc32(data) ==
    WordXor(ReferenceLoop(<<255, 255, 255, 255>>, data), <<255, 255, 255, 255>>)

\* C19: computeCrc32 returns the bit-by-bit reflected CRC-32 (0 for the empty
\* sequence), and createZipFromFiles writes that value to the local header and
\* to the central-directory record of each entry.
C19_Crc32MatchesReference ==
    /\ zip.pc = "crc" =>
           /\ zip.crc32 = ReferenceCrc32(zip.data)
           /\ zip.data = <<>> => zip.crc32 = <<0, 0, 0, 0>>
    /\ ZipCalled =>
           \A i \in DOMAIN zip.files :
               /\ Slice(zip.blob, LocalPosition(zip.files, i) + 14, 4)
                      = ReferenceCrc32(zip.files[i].data)
               /\ Slice(zip.blob, CentralPosition(zip.files, i) + 16, 4)
                      = ReferenceCrc32(zip.files[i].data)

\* computeCrc32 was applied to the bytes 255, 128.
C19_Witness == zip.pc = "crc" /\ zip.data = <<255, 128>>

(***************************************************************************)
(* Claims about the frame of the store operations                          *)
(***************************************************************************)
\* `after` is `before` with exactly the keys of the patch overridden.
Patched(before, after, updates) ==
    /\ DOMAIN after = DOMAIN before \cup DOMAIN updates
    /\ \A key \in DOMAIN updates : after[key] = updates[key]
    /\ \A key \in DOMAIN before \ DOMAIN updates : after[key] = before[key]

UpdateFieldFrame ==
    lastCall'.op = "updateField" =>
        /\ Len(documents') = Len(documents)
        /\ \A i \in DOMAIN documents :
               /\ documents'[i].selectedFieldId = documents[i].selectedFieldId
               /\ Len(documents'[i].fields) = Len(documents[i].fields)
               /\ \A k \in DOMAIN documents[i].fields :
                      IF /\ documents[i].id = lastCall'.documentId
                         /\ documents[i].fields[k].id = lastCall'.fieldId
                      THEN Patched(documents[i].fields[k], documents'[i].fields[k],
                                   lastCall'.updates)
                      ELSE documents'[i].fields[k] = documents[i].fields[k]

\* C14: updateField with a fieldId no field of the document has, or a documentId
\* no document has, leaves all fields and selections unchanged; with a known
\* fieldId it changes only the matching field, overriding exactly the keys of the
\* patch and keeping the others, and keeps the field order and the selection.
C14_UpdateFieldFrame == [][UpdateFieldFrame]_vars

\* updateField has patched the second of two fields of a document whose
\* selection is its first field.
C14_Witness ==
    /\ lastCall.op = "updateField"
    /\ HasDoc(documents, lastCall.documentId)
    /\ LET document == DocOf(documents, lastCall.documentId)
       IN  /\ Len(document.fields) = 2
           /\ document.fields[2].id = lastCall.fieldId
           /\ document.fields[1].id # lastCall.fieldId
           /\ document.selectedFieldId = document.fields[1].id
           /\ Patched(FieldB, document.fields[2], lastCall.updates)
           /\ document.fields[2] # FieldB

FieldLevelOps ==
    {"addField", "updateField", "removeField", "setFields", "mergeFields", "selectField"}

FieldOperationFrame ==
    lastCall'.op \in FieldLevelOps =>
        /\ activeDocumentId' = activeDocumentId
        /\ Len(documents') = Len(documents)
        /\ \A i \in DOMAIN documents :
               IF documents[i].id = lastCall'.documentId
               THEN /\ documents'[i].id = documents[i].id
                    /\ documents'[i].fileName = documents[i].fileName
                    /\ documents'[i].documentData = documents[i].documentData
                    /\ documents'[i].pages = documents[i].pages
               ELSE documents'[i] = documents[i]

\* C17: a field-level store operation called with documentId d leaves every
\* other document unchanged, leaves d's id, fileName, documentData and pages
\* unchanged, and leaves the order of the list and activeDocumentId unchanged;
\* called with a documentId no document has, it changes nothing.
C17_FieldOperationsFrame == [][FieldOperationFrame]_vars

\* mergeFields has just appended to the fields of d1, which lies between two
\* documents that still have their own fields and selection.
C17_Witness ==
    /\ lastCall.op = "mergeFields"
    /\ lastCall.documentId = "d1"
    /\ Len(lastCall.candidates) = 1
    /\ Len(documents) = 3
    /\ documents[2].id = "d1"
    /\ Len(documents[2].fields) = 2
    /\ documents[2].selectedFieldId = lastCall.candidates[1].id
    /\ documents[1] = FrameDocs[1]
    /\ documents[3] = FrameDocs[3]
    /\ activeDocumentId = "d3"

ActiveIsListed ==
    IF documents = <<>>
    THEN activeDocumentId = Undefined
    ELSE activeDocumentId # Undefined /\ HasDoc(documents, activeDocumentId)

Without(docs, id) == SelectSeq(docs, LAMBDA document : document.id # id)

RemoveDocumentStep ==
    lastCall'.op = "removeDocument" =>
        /\ documents' = Without(documents, lastCall'.documentId)
        /\ IF activeDocumentId = lastCall'.documentId
           THEN IF documents' = <<>>
                THEN activeDocumentId' = Undefined
                ELSE activeDocumentId' = documents'[1].id
           ELSE activeDocumentId' = activeDocumentId

SetActiveDocumentStep ==
    (lastCall'.op = "setActiveDocument" /\ ~HasDoc(documents, lastCall'.documentId)) =>
        /\ documents' = documents
        /\ activeDocumentId' = activeDocumentId

\* C20: under addDocument with fresh ids, removeDocument, clearAll and
\* setActiveDocument, activeDocumentId is undefined exactly when the list is
\* empty and otherwise is the id of a listed document; removing the active
\* document makes the first remaining document active, removing another one
\* leaves activeDocumentId unchanged, and setActiveDocument with an unknown id
\* changes nothing.
C20_ActiveDocumentIsListed ==
    []ActiveIsListed /\ [][RemoveDocumentStep /\ SetActiveDocumentStep]_vars

\* The active document, the second of three, has just been removed and the
\* first of the two remaining documents is active.
C20_Witness ==
    /\ lastCall.op = "removeDocument"
    /\ Len(documents) = 2
    /\ ~HasDoc(documents, lastCall.documentId)
    /\ lastCall.documentId \in ListedIds
    /\ activeDocumentId = documents[1].id

\* The maximal runs of underscores of a string, as <<first position, length>>
\* with positions counted from 1, left to right.
RunStarts(str) ==
    {i \in DOMAIN str : str[i] = "_" /\ (i = 1 \/ str[i - 1] # "_")}
RunLengthAt(str, i) ==
    CHOOSE n \in 1..Len(str) :
        /\ \A j \in i..(i + n - 1) : j <= Len(str) /\ str[j] = "_"
        /\ (i + n > Len(str) \/ str[i + n] # "_")

RECURSIVE InOrder(_)
InOrder(S) ==
    IF S = {} THEN <<>>
    ELSE LET least == CHOOSE i \in S : \A j \in S : i <= j
         IN  <<least>> \o InOrder(S \ {least})

\* The x, in display space, of the fields the claim expects for one item: one
\* per maximal run of at least 8 underscores, when the item has a width.
ExpectedXs(item) ==
    IF item.width <= 0 THEN <<>>
    ELSE LET starts == InOrder({i \in RunStarts(item.str) :
                                    RunLengthAt(item.str, i) >= 8})
         IN  [k \in DOMAIN starts |->
                 ((item.transform4 + (starts[k] - 1) * ScanCharWidth) * 5) \div 4]

RECURSIVE ExpectedPageXs(_)
ExpectedPageXs(items) ==
    IF items = <<>> THEN <<>>
    ELSE ExpectedXs(Head(items)) \o ExpectedPageXs(Tail(items))

RunsBecomeNamedFields ==
    scan.pc = "done" =>
        LET expected == ExpectedPageXs(scan.items)
        IN  /\ Len(scan.detected) = Len(expected)
            /\ \A k \in DOMAIN scan.detected :
                   /\ scan.detected[k].x = expected[k]
                   /\ scan.detected[k].name =
                          "page" \o ToString(scan.page.index + 1) \o "_field_" \o ToString(k)

\* C15: detectFieldsForPage emits exactly one Field for each maximal underscore
\* run of length >= 8 with positive measured width and none for a shorter run,
\* in item order then run order, and names the k-th emitted Field of the page
\* page{index+1}_field_{k}.
C15_RunsBecomeNamedFields == RunsBecomeNamedFields

\* The first line has no width; the second holds a run of 10, a letter and a
\* run of 4, and yields the only field of the page, page1_field_1.
C15_Witness ==
    /\ scan.pc = "done"
    /\ scan.page.index = 0
    /\ scan.items[1].width = 0
    /\ scan.items[1].str = Underscores(10)
    /\ scan.items[2].str = Underscores(10) \o <<"a">> \o Underscores(4)
    /\ Len(scan.detected) = 1
    /\ scan.detected[1].name = "page1_field_1"

TimesScale(value, pageMeta) ==
    Quotient(value.num * pageMeta.scaleNum, value.den * pageMeta.scaleDen)

\* The inverse of the export transform: from PDF space back to display space.
MeasuredBack(pageMeta, rectangle) ==
    [x |-> TimesScale(rectangle.x, pageMeta),
     y |-> TimesScale(Minus(Minus(Quotient(pageMeta.originalHeight, 1), rectangle.y),
                            rectangle.height), pageMeta),
     width |-> TimesScale(rectangle.width, pageMeta),
     height |-> TimesScale(rectangle.height, pageMeta)]

RoundTrip ==
    placed.pc = "done" =>
        LET back == MeasuredBack(placed.page, placed.rectangle)
        IN  /\ SameNumber(back.x, Quotient(placed.field.x, 1))
            /\ SameNumber(back.y, Quotient(placed.field.y, 1))
            /\ SameNumber(back.width, Quotient(placed.field.width, 1))
            /\ SameNumber(back.height, Quotient(placed.field.height, 1))

\* C16: the widget rectangle buildFillablePdf computes (x/scale, width/scale,
\* height/scale, originalHeight - y/scale - height/scale), mapped back by the
\* inverse transform, gives the original display-space rectangle.
C16_ExportTransformRoundTrip == RoundTrip

\* A field placed on a page of scale 5/4 at coordinates the scale does not
\* divide: every side of the PDF rectangle is a fraction.
C16_Witness ==
    /\ placed.pc = "done"
    /\ placed.page.scaleNum = 5 /\ placed.page.scaleDen = 4
    /\ placed.field.y > 0
    /\ \A side \in {"x", "y", "width", "height"} :
           placed.rectangle[side].num % placed.rectangle[side].den # 0

\* The files of a batch that are readable PDFs, and the ones that are not.
ReadablePdf(file) == file.name \in {NameAPdf, NameAPDF} /\ file.readable
ReadablePdfNames(files) ==
    LET kept == SelectSeq(files, ReadablePdf) IN [i \in DOMAIN kept |-> kept[i].name]
FileNames(docs) == [i \in DOMAIN docs |-> docs[i].fileName]

BatchOutcome ==
    ing.pc = "done" =>
        /\ loading = FALSE
        /\ FileNames(documents) = ReadablePdfNames(ing.files)
        /\ (\E i \in DOMAIN ing.files : ~ReadablePdf(ing.files[i])) => error # Null

BadFileStep ==
    (ing.pc = "running" /\ ing' # ing /\ ~ReadablePdf(ing.files[ing.next])) =>
        /\ documents' = documents
        /\ error' # Null
        /\ error' = IF ing.files[ing.next].name \in {NameAPdf, NameAPDF}
                    THEN ReadFailedMessage(ing.files[ing.next].name)
                    ELSE UploadPdfMessage

\* C18: in a batch ingest a file that is not a .pdf or that fails to load adds
\* no document and sets the error, and does not stop the batch: every later
\* readable PDF is still added to the store, in file order, and loading is
\* false once the batch ends.
C18_BadFileDoesNotStopTheBatch == []BatchOutcome /\ [][BadFileStep]_vars

\* A batch of a readable PDF, a PDF that fails to load and another readable
\* PDF has ended with both readable ones in the store and the error set.
C18_Witness ==
    /\ ing.pc = "done"
    /\ Len(ing.files) = 3
    /\ ing.files[1].readable /\ ing.files[1].name = NameAPDF
    /\ ing.files[2].name = NameAPdf /\ ~ing.files[2].readable
    /\ ing.files[3].readable /\ ing.files[3].name = NameAPdf
    /\ FileNames(documents) = <<NameAPDF, NameAPdf>>
    /\ error = ReadFailedMessage(NameAPdf)
    /\ loading = FALSE

MergeSelectionFrame ==
    (lastCall'.op = "mergeFields" /\ HasDoc(documents, lastCall'.documentId)) =>
        LET before == DocOf(documents, lastCall'.documentId)
            after == DocOf(documents', lastCall'.documentId)
        IN  IF Len(after.fields) = Len(before.fields)
            THEN /\ after.fields = before.fields
                 /\ after.selectedFieldId = before.selectedFieldId
            ELSE /\ Len(after.fields) > Len(before.fields)
                 /\ after.selectedFieldId = after.fields[Len(after.fields)].id
                 /\ \E i \in DOMAIN lastCall'.candidates :
                        lastCall'.candidates[i] = after.fields[Len(after.fields)]

\* C21: a mergeFields call that appends nothing leaves the document's fields and
\* its selectedFieldId unchanged; selectedFieldId changes only when at least one
\* candidate is appended, and then becomes the id of the last appended candidate.
C21_MergeSelectsOnlyWhatItAppends == [][MergeSelectionFrame]_vars

IsPrefix(short, long) ==
    /\ Len(short) <= Len(long)
    /\ \A k \in DOMAIN short : long[k] = short[k]

\* A step of the run that merges what detectFields returned for a document.
DetectMergeStep ==
    /\ run.pc = "detecting"
    /\ Len(run'.log) = Len(run.log) + 1
    /\ run'.log[Len(run'.log)].outcome = "merged"

MergeAtMergeTime ==
    DetectMergeStep =>
        LET merged == run.snapshot[run.doc]
            candidates == run'.log[Len(run'.log)].candidates
        IN  /\ Len(documents') = Len(documents)
            /\ \A i \in DOMAIN documents :
                   IF documents[i].id = merged.id
                   THEN /\ documents'[i].id = merged.id
                        /\ IsPrefix(documents[i].fields, documents'[i].fields)
                        /\ \A k \in DOMAIN documents'[i].fields :
                               k > Len(documents[i].fields) =>
                                   documents'[i].fields[k] \in Range(candidates)
                        /\ \A field \in Range(merged.fields) \ Range(documents[i].fields) :
                               field \notin Range(documents'[i].fields)
                   ELSE documents'[i] = documents[i]

\* C22: the merge of a running handleAutoDetect is applied to the store's state
\* at merge time, not to the snapshot taken at the start: every field present
\* just before the merge is still there, unmodified and in the same order; a
\* field the user removed or changed during detection is not restored from the
\* snapshot; a merge for a document removed meanwhile does not re-create it.
C22_NoLostUpdate == [][MergeAtMergeTime]_vars

\* During detection the user removed m1, changed f1 and added m2 in d1 and
\* removed d2; the merge for d1 appended one detected field after them and the
\* merge for d2 did not bring d2 back.
C22_Witness ==
    /\ run.pc = "done"
    /\ Len(run.log) = 2
    /\ run.log[1].outcome = "merged" /\ run.log[2].outcome = "merged"
    /\ Len(run.log[2].candidates) = 1
    /\ Len(documents) = 1
    /\ documents[1].id = "d1"
    /\ Len(documents[1].fields) = 3
    /\ documents[1].fields[1] = Spread(FieldA, RacePatch)
    /\ documents[1].fields[2] = RaceField
    /\ documents[1].fields[3] \in Range(run.log[1].candidates)

\* C23: at most one auto-detect run is in flight at any time: the detecting
\* flag is true while a handleAutoDetect run has not finished, so the button
\* cannot start a second run before the first one ends.
C23_AtMostOneDetectRun ==
    /\ Len(flights.open) <= 1
    /\ Len(flights.open) > 0 => detecting

\* fileName with a trailing .pdf (any case) removed and -fillable.pdf appended.
FillableName(fileName) ==
    LET n == Len(fileName)
        trailing == /\ n >= 4
                    /\ fileName[n - 3] = "."
                    /\ fileName[n - 2] \in {"p", "P"}
                    /\ fileName[n - 1] \in {"d", "D"}
                    /\ fileName[n] \in {"f", "F"}
    IN  (IF trailing THEN SubSeq(fileName, 1, n - 4) ELSE fileName)
            \o <<"-", "f", "i", "l", "l", "a", "b", "l", "e", ".", "p", "d", "f">>

\* C24: in every archive produced by handleExportAll no two entries have the
\* same file name, and each entry's name is the document's fileName with a
\* trailing .pdf (any case) removed and -fillable.pdf appended.
C24_ArchiveNamesDistinct ==
    exp.pc = "zipped" =>
        /\ \A i \in DOMAIN exp.archive :
               exp.archive[i].name = FillableName(WithFields(exp.snapshot)[i].fileName)
        /\ \A i, j \in DOMAIN exp.archive :
               exp.archive[i].name = exp.archive[j].name => i = j

=============================================================================
